---- MODULE Spec2Model ----
(***************************************************************************)
(* Model of the seexcool image enhancement scripts                         *)
(*   scripts/mosaic_superrecon.py          (script "mosaic")               *)
(*   scripts/quality_enhance.py            (script "quality")              *)
(*   scripts/quality_enhance_standalone.py (script "standalone")           *)
(*   scripts/quality_enhance_text.py       (script "text")                 *)
(* and of the weight downloader scripts/download_models.py.                *)
(*                                                                         *)
(* An image is represented by its pixel dimensions and by the list of      *)
(* transforms applied to it (stageLog); pixel values are computed by       *)
(* OpenCV / PIL / the Real-ESRGAN library and are not modelled.            *)
(* A scale is a double.  The model draws it from the dyadic rationals      *)
(* n / 2^ScaleBits, on which the products W * scale of the code are exact  *)
(* in double precision, and from NaN (float("nan") is accepted by float()  *)
(* and by argparse type=float).                                            *)
(* The OpenCV / PIL filters are taken to return an image for every RGB     *)
(* image; what can fail is the file system (open, makedirs, imwrite) and   *)
(* the Real-ESRGAN library (construction, load_weights, predict).          *)
(***************************************************************************)
EXTENDS Integers, Sequences, FiniteSets, TLC

(* ------------------------------ bounds --------------------------------- *)
ScaleBits == 2
MaxScale == 5
MaxW == 2
MaxH == 2
BigDim == 600
MaxCalls == 2

(* -------------------------- program constants -------------------------- *)
tile_size == 512
MODEL_SCALE == 4
size_mb == 67
MiB == 1048576

(* ------------------------------ scales --------------------------------- *)
Unit == 2 ^ ScaleBits
Num(n) == [nan |-> FALSE, n |-> n]
NaN == [nan |-> TRUE, n |-> 0]
Scales == {Num(n) : n \in (0 - Unit)..(MaxScale * Unit)} \cup {NaN}

\* float comparisons: every comparison with NaN is false, != is true
FLe(s, k) == ~s.nan /\ s.n <= k * Unit
FGt(s, k) == ~s.nan /\ s.n > k * Unit
FNe(s, k) == s.nan \/ s.n # k * Unit
InRange(s) == ~s.nan /\ s.n > Unit /\ s.n <= 4 * Unit

\* the test `scale <= 1.0 or scale > 4.0` of every main()
ScaleRejected(s) == FLe(s, 1) \/ FGt(s, 4)

\* int(w * scale) for a scale that is a number; int() truncates toward zero
\* (IntMulRound: the variant that rounds to nearest instead)
IntMulRound(w, s) == (2 * w * s.n + Unit) \div (2 * Unit)
IntMul(w, s) == (w * s.n) \div Unit

Widths == (1..MaxW) \cup {BigDim}
Heights == (1..MaxH) \cup {BigDim}
Scripts == {"mosaic", "quality", "standalone", "text"}
Strengths == {0 - 5, 0, 3, 15}
PredictFactors == {1, 2, 4}

VARIABLES
  script, pc, exitStatus,
  scale, strength, denoise, edges, deviceArg,
  hasLib, weightsExist, device,
  opened, origW, origH, srW, srH, refW, refH,
  upscaler, modelMade, predictCalls, modelRaised, libFactor, verdict,
  stageLog, dirCreated, outWritten, outW, outH, writeResult,
  dlPc, dlName, dlForce, dlFile, dlFetches, dlRet, dlCalls,
  dlPreValid, dlFetchOk, dlPostValid, dlFile0, dlFetched

\* how the imports at the top of the script ended (the required block and the
\* optional realesrgan import) and what was printed about them
VARIABLES reqImport, optImport, importMsg
impVars == <<reqImport, optImport, importMsg>>
\* the strength reduce_mosaic_artifacts was called with: <<>> while it has not
\* been called
VARIABLES reduceArg

runVars == <<script, pc, exitStatus, scale, strength, denoise, edges, deviceArg,
             hasLib, weightsExist, device, opened, origW, origH, srW, srH,
             refW, refH, upscaler, modelMade, predictCalls, modelRaised, libFactor,
             verdict, stageLog, dirCreated, outWritten, outW, outH, writeResult,
             impVars, reduceArg>>
dlVars == <<dlPc, dlName, dlForce, dlFile, dlFetches, dlRet, dlCalls,
            dlPreValid, dlFetchOk, dlPostValid, dlFile0, dlFetched>>

\* the first of two runs of the same command line, as recorded when the second
\* run starts (NoRun: there was no earlier run)
VARIABLES first


\* the model path of the upscale, call by call: the image and device it is
\* given, the crops handed to model.predict, the list `tiles`, the pastes and
\* the canvas `result`
VARIABLES tlPc, tlDevice, tlW, tlH, tlFactor, tlX, tlY, tlCalls, tlTiles,
          tlPastes, tlCanvas, tlWhole, tlOut, tlSource
tlVars == <<tlPc, tlDevice, tlW, tlH, tlFactor, tlX, tlY, tlCalls, tlTiles,
            tlPastes, tlCanvas, tlWhole, tlOut, tlSource>>

\* auto_setup: where main() stands, its exit status, the steps begun and ended,
\* what each step returned, and the environment the child processes see
VARIABLES asPc, asExit, asLog, asRes, asCwdRoot, asLibs, asWeights, asMissing
asEnv == <<asCwdRoot, asLibs, asWeights, asMissing>>
asVars == <<asPc, asExit, asLog, asRes, asEnv>>

\* one call of verify_file: the file (its size in bytes, or Absent, and what
\* kind of content it has), the expected size in MB (0: none given) and the
\* boolean returned
VARIABLES vfPc, vfSize, vfContent, vfExpected, vfResult
vfVars == <<vfPc, vfSize, vfContent, vfExpected, vfResult>>

\* utils/model_loader: one import of the module and one call of
\* load_esrgan_model: its arguments, the machine, the files of the weights
\* directory, the model object built and what the call returned or raised
VARIABLES mlPc, mlDeviceArg, mlScale, mlName, mlCuda, mlFiles, mlModel,
          mlDevice, mlRaised
mlVars == <<mlPc, mlDeviceArg, mlScale, mlName, mlCuda, mlFiles, mlModel,
            mlDevice, mlRaised>>

\* diagnose.py: the interpreter's version, how the import of each required
\* library ends, whether CUDA is available, whether ./weights and the model
\* file in it exist, which scripts exist under ./scripts, whether --json was
\* given; then the diagnosis built, the overall status printed, whether the
\* JSON document was printed, and the exit status
VARIABLES dgPc, dgVersion, dgImports, dgCuda, dgWeightsDir, dgModelExists,
          dgScripts, dgJson, dgDiagnosis, dgReady, dgJsonPrinted, dgExit
dgEnv == <<dgVersion, dgImports, dgCuda, dgWeightsDir, dgModelExists, dgScripts,
           dgJson>>
dgVars == <<dgPc, dgEnv, dgDiagnosis, dgReady, dgJsonPrinted, dgExit>>

\* where the weights are: the working directory the commands are started
\* from, whether the interpreter makes __file__ of the script absolute, the
\* files that exist, the path download_models stored the model at, and the
\* path each consumer has looked at
VARIABLES ptPc, ptCwd, ptAbsFile, ptFiles, ptStored, ptLooked
ptVars == <<ptPc, ptCwd, ptAbsFile, ptFiles, ptStored, ptLooked>>

nonRunVars == <<dlVars, first, tlVars, asVars, vfVars, mlVars, dgVars, ptVars>>
nonDlVars == <<runVars, first, tlVars, asVars, vfVars, mlVars, dgVars, ptVars>>
nonTlVars == <<runVars, dlVars, first, asVars, vfVars, mlVars, dgVars, ptVars>>
nonAsVars == <<runVars, dlVars, first, tlVars, vfVars, mlVars, dgVars, ptVars>>
nonVfVars == <<runVars, dlVars, first, tlVars, asVars, mlVars, dgVars, ptVars>>
nonMlVars == <<runVars, dlVars, first, tlVars, asVars, vfVars, dgVars, ptVars>>
nonDgVars == <<runVars, dlVars, first, tlVars, asVars, vfVars, mlVars, ptVars>>
nonPtVars == <<runVars, dlVars, first, tlVars, asVars, vfVars, mlVars, dgVars>>
vars == <<runVars, dlVars, first, tlVars, asVars, vfVars, mlVars, dgVars, ptVars>>

(* --------------------------- image helpers ----------------------------- *)
overlap == 32
Ceil(a, b) == (a + b - 1) \div b
\* number of crops of upscale_with_tiles: range(0, h, 480) x range(0, w, 480)
NTiles(w, h) == Ceil(w, tile_size - overlap) * Ceil(h, tile_size - overlap)

\* the CPU tiling test of process_with_esrgan / quality_enhance.main
\* (UseTilesBySide: the variant that compares the sides with the tile size)
UseTilesBySide(dev, w, h) == dev = "cpu" /\ (w > tile_size \/ h > tile_size)
UseTiles(dev, w, h) == dev = "cpu" /\ w * h > tile_size * tile_size

\* size_ratio >= 3.5 of verify_enhancement / verify_model_execution
\* (pixel-count ratio of the enhanced image to the original)
verify_enhancement(ow, oh, ew, eh) == 10 * (ew * eh) >= 35 * (ow * oh)

Log(s) == Append(stageLog, s)

(* ------------------------------- Init ---------------------------------- *)
InitRun ==
  /\ script = "none" /\ pc = "start" /\ exitStatus = 0 - 1
  /\ scale = Num(2 * Unit) /\ strength = 3 /\ denoise = FALSE /\ edges = FALSE
  /\ deviceArg = "auto" /\ hasLib = FALSE /\ weightsExist = FALSE /\ device = "none"
  /\ opened = FALSE /\ origW = 0 /\ origH = 0 /\ srW = 0 /\ srH = 0
  /\ refW = 0 /\ refH = 0
  /\ upscaler = "none" /\ modelMade = FALSE /\ predictCalls = 0
  /\ modelRaised = FALSE /\ libFactor = 0 /\ verdict = "none"
  /\ stageLog = <<>> /\ dirCreated = FALSE /\ outWritten = FALSE
  /\ outW = 0 /\ outH = 0 /\ writeResult = "none"
  /\ reqImport = "none" /\ optImport = "none" /\ importMsg = "none"
  /\ reduceArg = <<>>

(* ---------------- command line and module import ----------------------- *)
\* sys.exit(1): from the scale check, from an uncaught exception, or from the
\* `except Exception` handler that ends every main()
Exit1 == pc' = "done" /\ exitStatus' = 1

\* How an import statement can end: it succeeds, raises ImportError (the
\* package is not installed), or raises another exception (the package is
\* installed and fails while it initialises)
ImportOutcomes == {"ok", "ImportError", "other"}

\* The required block `import cv2, numpy, PIL, torch` of every script is
\* wrapped in `except ImportError` (message, sys.exit(1)); another exception is
\* not caught and ends the interpreter with a traceback, status 1.
RequiredMsg(kind) == IF kind = "ImportError" THEN "fatal" ELSE "traceback"

\* The handler around `from realesrgan import ...`: `except ImportError` in
\* mosaic_superrecon and quality_enhance, `except Exception` in
\* quality_enhance_text
OptionalCaught(sc, kind) == kind = "ImportError" \/ sc = "text"

\* The process starts: the imports run (quality_enhance_standalone has no
\* realesrgan import), then argparse parses the options.  Only
\* mosaic_superrecon has --mosaic-strength, --denoise, --enhance-edges and
\* --device.
Start ==
  /\ pc = "start"
  /\ \E sc \in Scripts, req \in ImportOutcomes, opt \in ImportOutcomes :
       LET o == IF sc = "standalone" \/ req # "ok" THEN "none" ELSE opt
       IN /\ script' = sc /\ reqImport' = req /\ optImport' = o
          /\ IF req # "ok"
             THEN /\ importMsg' = RequiredMsg(req)
                  /\ Exit1
                  /\ UNCHANGED <<scale, hasLib, strength, denoise, edges, deviceArg>>
             ELSE IF o \in {"ImportError", "other"} /\ ~OptionalCaught(sc, o)
             THEN /\ importMsg' = "traceback"
                  /\ Exit1
                  /\ UNCHANGED <<scale, hasLib, strength, denoise, edges, deviceArg>>
             ELSE /\ importMsg' = IF o \in {"ImportError", "other"}
                                  THEN "warning" ELSE "none"
                  /\ hasLib' = (o = "ok")
                  /\ \E s \in Scales : scale' = s
                  /\ IF sc = "mosaic"
                     THEN \E st \in Strengths, dn \in BOOLEAN, ed \in BOOLEAN,
                             dv \in {"auto", "cuda", "cpu"} :
                            /\ strength' = st /\ denoise' = dn /\ edges' = ed
                            /\ deviceArg' = dv
                     ELSE UNCHANGED <<strength, denoise, edges, deviceArg>>
                  /\ pc' = "scale" /\ UNCHANGED exitStatus
  /\ UNCHANGED <<weightsExist, device, opened, origW, origH, srW, srH,
                 refW, refH, upscaler, modelMade, predictCalls, modelRaised,
                 libFactor, verdict, stageLog, dirCreated, outWritten, outW, outH,
                 writeResult>>
  /\ UNCHANGED reduceArg
  /\ UNCHANGED nonRunVars

\* Scale validation and device selection.  torch.cuda.get_device_name(0) is
\* called outside the try block when device == "cuda"; with --device cuda on a
\* machine without CUDA it raises and the interpreter exits 1.
main_scale ==
  /\ pc = "scale"
  /\ \/ /\ ScaleRejected(scale)
        /\ Exit1
        /\ UNCHANGED device
     \/ /\ ~ScaleRejected(scale)
        /\ \E cuda \in BOOLEAN :
             LET dev == IF deviceArg = "auto"
                        THEN (IF cuda THEN "cuda" ELSE "cpu")
                        ELSE deviceArg
             IN /\ device' = dev
                /\ IF dev = "cuda" /\ ~cuda
                   THEN Exit1
                   ELSE pc' = "open" /\ UNCHANGED exitStatus
  /\ UNCHANGED <<script, scale, strength, denoise, edges, deviceArg, hasLib,
                 weightsExist, opened, origW, origH, srW, srH, refW, refH,
                 upscaler, modelMade, predictCalls, modelRaised, libFactor,
                 verdict, stageLog, dirCreated, outWritten, outW, outH, writeResult,
                 impVars>>
  /\ UNCHANGED reduceArg
  /\ UNCHANGED nonRunVars

\* Image.open(args.input).convert("RGB").  mosaic_superrecon opens inside the
\* try block (handler: sys.exit(1)); the other scripts open outside it and an
\* unreadable input ends the interpreter with a traceback, status 1.
\* mosaic_superrecon and quality_enhance_text keep original_img_backup.
AfterOpen(sc) == IF sc = "mosaic" THEN "reduce"
                 ELSE IF sc = "text" THEN "upscale" ELSE "preprocess"
main_open ==
  /\ pc = "open"
  /\ opened' = TRUE
  /\ \/ /\ Exit1
        /\ UNCHANGED <<origW, origH, refW, refH>>
     \/ \E w \in Widths, h \in Heights :
          /\ origW' = w /\ origH' = h
          /\ IF script \in {"mosaic", "text"}
             THEN refW' = w /\ refH' = h
             ELSE UNCHANGED <<refW, refH>>
          /\ pc' = AfterOpen(script)
          /\ UNCHANGED exitStatus
  /\ UNCHANGED <<script, scale, strength, denoise, edges, deviceArg, hasLib,
                 weightsExist, device, srW, srH, upscaler, modelMade,
                 predictCalls, modelRaised, libFactor, verdict, stageLog,
                 dirCreated, outWritten, outW, outH, writeResult, impVars>>
  /\ UNCHANGED reduceArg
  /\ UNCHANGED nonRunVars

cfgVars == <<script, scale, strength, denoise, edges, deviceArg, hasLib, impVars>>
modelVars == <<weightsExist, upscaler, modelMade, predictCalls, modelRaised,
               libFactor>>
outVars == <<dirCreated, outWritten, outW, outH, writeResult>>

(* ------------------- mosaic_superrecon: stages before upscale ---------- *)
\* line 316: `if args.mosaic_strength > 0:`, strengths in tenths
\* (StrengthInUnitRange: the variant that also wants the strength to be at
\* most 1.0)
StrengthInUnitRange(st) == st > 0 /\ st <= 10
StrengthPositive(st) == st > 0

\* 1: reduce_mosaic_artifacts(img_cv, args.mosaic_strength), guarded by
\* args.mosaic_strength > 0; the function blends with the weights
\* 1.0 - strength and strength and has no check of its own
ms_reduce_mosaic_artifacts ==
  /\ pc = "reduce"
  /\ IF StrengthPositive(strength)
     THEN stageLog' = Log("reduce_mosaic_artifacts") /\ reduceArg' = <<strength>>
     ELSE UNCHANGED <<stageLog, reduceArg>>
  /\ pc' = "denoise1"
  /\ UNCHANGED <<cfgVars, modelVars, outVars, exitStatus, device, opened, origW,
                 origH, srW, srH, refW, refH, verdict>>
  /\ UNCHANGED nonRunVars

\* 2: denoise_image on the input, guarded by args.denoise
ms_denoise_image_pre ==
  /\ pc = "denoise1"
  /\ stageLog' = IF denoise THEN Log("denoise_image") ELSE stageLog
  /\ pc' = "upscale"
  /\ UNCHANGED <<cfgVars, modelVars, outVars, exitStatus, device, opened, origW,
                 origH, srW, srH, refW, refH, verdict>>
  /\ UNCHANGED reduceArg
  /\ UNCHANGED nonRunVars

(* ------------------------------ upscale -------------------------------- *)
\* What the Real-ESRGAN library does once the script decides to use it:
\*   load_raise    the constructor or load_weights raises
\*   predict_raise a predict / enhance call raises
\*   ok            every call returns; each returned image is f times its input
\* The library is external: the code itself checks the ratio of what it got
\* back (lines 241-244), so the factor is not taken for granted.
LibOutcomes == {[kind |-> "load_raise", f |-> 0], [kind |-> "predict_raise", f |-> 0]}
               \cup {[kind |-> "ok", f |-> f] : f \in PredictFactors}

\* The Lanczos fallback: image.resize((int(w * 4), int(h * 4)), Image.LANCZOS)
\* (FallbackSameSize: the variant that forgets the factor)
FallbackSameSize ==
  /\ srW' = origW /\ srH' = origH
  /\ upscaler' = "lanczos"
Fallback ==
  /\ srW' = origW * MODEL_SCALE /\ srH' = origH * MODEL_SCALE
  /\ upscaler' = "lanczos"

\* The guard `HAS_REALESRGAN and os.path.exists(model_path)`
\* (ModelAvailableEither: the variant with `or`)
ModelAvailableEither(lib, exists) == lib \/ exists
ModelAvailable(lib, exists) == lib /\ exists

\* The body of the inner try block: RealESRGAN(device, scale=4), load_weights,
\* then upscale_with_tiles (canvas of 4w x 4h, one predict per crop) or one
\* predict on the whole image.  An exception anywhere falls through to the
\* Lanczos fallback.
TryModel(o, tiled) ==
  /\ modelMade' = TRUE
  /\ IF o.kind = "ok"
     THEN /\ modelRaised' = FALSE
          /\ libFactor' = o.f
          /\ IF tiled
             THEN /\ srW' = origW * MODEL_SCALE /\ srH' = origH * MODEL_SCALE
                  /\ upscaler' = "tiles"
                  /\ predictCalls' = NTiles(origW, origH)
             ELSE /\ srW' = origW * o.f /\ srH' = origH * o.f
                  /\ upscaler' = "model"
                  /\ predictCalls' = 1
     ELSE /\ modelRaised' = TRUE
          /\ libFactor' = 0
          /\ IF o.kind = "load_raise"
             THEN predictCalls' = 0
             ELSE \E k \in 1..(IF tiled THEN NTiles(origW, origH) ELSE 1) :
                    predictCalls' = k
          /\ Fallback

\* 3: process_with_esrgan(img_pil, device, scale=4)
ms_process_with_esrgan ==
  /\ pc = "upscale" /\ script = "mosaic"
  /\ \E exists \in BOOLEAN :
       /\ weightsExist' = exists
       /\ IF ModelAvailable(hasLib, exists)
          THEN \E o \in LibOutcomes : TryModel(o, UseTiles(device, origW, origH))
          ELSE Fallback /\ UNCHANGED <<modelMade, predictCalls, modelRaised, libFactor>>
  /\ stageLog' = Log("upscale")
  /\ pc' = "verify"
  /\ UNCHANGED <<cfgVars, outVars, exitStatus, device, opened, origW, origH, refW, refH,
                 verdict>>
  /\ UNCHANGED reduceArg
  /\ UNCHANGED nonRunVars

\* quality_enhance.main lines 260-318: the same guard and try block, applied to
\* the preprocessed image; verify_model_execution runs inside the try block,
\* after a successful model run only.
qe_upscale ==
  /\ pc = "upscale" /\ script = "quality"
  /\ \E exists \in BOOLEAN :
       /\ weightsExist' = exists
       /\ IF ModelAvailable(hasLib, exists)
          THEN \E o \in LibOutcomes :
                 /\ TryModel(o, UseTiles(device, origW, origH))
                 /\ pc' = IF o.kind = "ok" THEN "verify" ELSE "resize"
          ELSE /\ Fallback
               /\ pc' = "resize"
               /\ UNCHANGED <<modelMade, predictCalls, modelRaised, libFactor>>
  /\ stageLog' = Log("upscale")
  /\ UNCHANGED <<cfgVars, outVars, exitStatus, device, opened, origW, origH,
                 refW, refH, verdict>>
  /\ UNCHANGED reduceArg
  /\ UNCHANGED nonRunVars

\* quality_enhance_standalone.main lines 180-186 with upscale_with_model:
\* torch.load of the checkpoint succeeds or raises, and both branches return
\* img_pil.resize((int(w * 4), int(h * 4)), Image.LANCZOS); no network is built.
\* upscale_with_model after load_realesrgan_model returned the checkpoint,
\* lines 78-90: the checkpoint is not used, the image is resized with Lanczos
\* (UpscaleLoadedAsNetwork: the variant that runs the checkpoint as the model)
UpscaleLoadedAsNetwork ==
  /\ srW' = origW * MODEL_SCALE /\ srH' = origH * MODEL_SCALE
  /\ upscaler' = "model"
UpscaleLoaded == Fallback

qs_upscale ==
  /\ pc = "upscale" /\ script = "standalone"
  /\ \E exists \in BOOLEAN, loads \in BOOLEAN :
       /\ weightsExist' = exists
       /\ modelRaised' = (exists /\ ~loads)
       /\ IF exists /\ loads THEN UpscaleLoaded ELSE Fallback
  /\ stageLog' = Log("upscale")
  /\ pc' = "resize"
  /\ UNCHANGED <<cfgVars, outVars, exitStatus, device, opened, origW, origH,
                 refW, refH, verdict, modelMade, predictCalls, libFactor>>
  /\ UNCHANGED reduceArg
  /\ UNCHANGED nonRunVars

\* quality_enhance_text.main lines 188-235: RealESRGANer(...) and
\* model.enhance(img_array, outscale=4) on the whole image, no tiling by the
\* script; the fallback resizes the unprocessed input.
qt_upscale ==
  /\ pc = "upscale" /\ script = "text"
  /\ \E exists \in BOOLEAN :
       /\ weightsExist' = exists
       /\ IF ModelAvailable(hasLib, exists)
          THEN \E o \in LibOutcomes : TryModel(o, FALSE)
          ELSE Fallback /\ UNCHANGED <<modelMade, predictCalls, modelRaised, libFactor>>
  /\ stageLog' = Log("upscale")
  /\ pc' = "resize"
  /\ UNCHANGED <<cfgVars, outVars, exitStatus, device, opened, origW, origH,
                 refW, refH, verdict>>
  /\ UNCHANGED reduceArg
  /\ UNCHANGED nonRunVars

(* ------------------------------ verify --------------------------------- *)
\* What main() does with the boolean: both branches only print a line, and
\* control continues with the resize step.
\* (VerifyBranchGated: the variant that treats a failed verification as fatal)
VerifyBranchGated(ok) ==
  IF ok THEN pc' = "resize" /\ UNCHANGED exitStatus ELSE Exit1
VerifyBranch(ok) == pc' = "resize" /\ UNCHANGED exitStatus

\* mosaic_superrecon.main lines 342-346 and quality_enhance.main lines 290-294
main_verify ==
  /\ pc = "verify"
  /\ LET ok == verify_enhancement(origW, origH, srW, srH)
     IN /\ verdict' = IF ok THEN "pass" ELSE "fail"
        /\ VerifyBranch(ok)
  /\ UNCHANGED <<cfgVars, modelVars, outVars, device, opened, origW, origH,
                 srW, srH, refW, refH, stageLog>>
  /\ UNCHANGED reduceArg
  /\ UNCHANGED nonRunVars

(* ------------------------------ resize --------------------------------- *)
\* `if scale != 4.0:` target = (int(w * scale), int(h * scale)); int(nan)
\* raises ValueError, which the handler of main() turns into sys.exit(1).
\* mosaic_superrecon and quality_enhance_text resize the backup as well.
AfterResize(sc) == IF sc = "mosaic" THEN "color" ELSE "postprocess"
main_resize ==
  /\ pc = "resize"
  /\ IF FNe(scale, 4)
     THEN IF scale.nan
          THEN /\ Exit1
               /\ UNCHANGED <<srW, srH, refW, refH, stageLog>>
          ELSE /\ srW' = IntMul(origW, scale) /\ srH' = IntMul(origH, scale)
               /\ IF script \in {"mosaic", "text"}
                  THEN refW' = srW' /\ refH' = srH'
                  ELSE UNCHANGED <<refW, refH>>
               /\ stageLog' = Log("resize")
               /\ pc' = AfterResize(script)
               /\ UNCHANGED exitStatus
     ELSE /\ pc' = AfterResize(script)
          /\ UNCHANGED <<srW, srH, refW, refH, stageLog, exitStatus>>
  /\ UNCHANGED <<cfgVars, modelVars, outVars, device, opened, origW, origH,
                 verdict>>
  /\ UNCHANGED reduceArg
  /\ UNCHANGED nonRunVars

(* ------------------ mosaic_superrecon: postprocessing ------------------ *)
\* An image is <<width, height>>; its array has shape (height, width, 3).
\* cv2.resize(src, dsize): dsize is (width, height), whatever the source is.
cv2_resize(src, dsize) == dsize
\* The filters of the chains (cvtColor, split / merge, CLAHE, GaussianBlur,
\* addWeighted of an array with its own blur, bilateralFilter,
\* fastNlMeansDenoisingColored, filter2D, Canny): the array returned has the
\* shape of the array passed.
Filtered(img) == img
\* No reference: original_cv=None
NoRef == <<>>
\* enhance_color(image_cv, original_cv): the reference is resized to the image
\* (cv2.resize(original_cv, (image.shape[1], image.shape[0]))), its chroma is
\* blended into the image's channels, and the channels of the image are merged.
\* (enhance_color_on_reference: the variant that builds its result on the
\* reference, the image being the one resized)
enhance_color_on_reference(img, ref) ==
  IF ref = NoRef THEN Filtered(img) ELSE Filtered(ref)
enhance_color(img, ref) ==
  IF ref = NoRef
  THEN Filtered(img)
  ELSE LET original_upscaled == cv2_resize(ref, <<img[1], img[2]>>)
       IN IF original_upscaled = img THEN Filtered(img) ELSE <<0, 0>>

\* 5: original_upscaled = cv2.resize(original_cv, (sr w, sr h)); enhance_color
ms_enhance_color ==
  /\ pc = "color"
  /\ LET up == cv2_resize(<<refW, refH>>, <<srW, srH>>)
         r == enhance_color(<<srW, srH>>, up)
     IN /\ refW' = up[1] /\ refH' = up[2]
        /\ srW' = r[1] /\ srH' = r[2]
  /\ stageLog' = Log("enhance_color")
  /\ pc' = "denoise2"
  /\ UNCHANGED <<cfgVars, modelVars, outVars, exitStatus, device, opened, origW,
                 origH, verdict>>
  /\ UNCHANGED reduceArg
  /\ UNCHANGED nonRunVars

\* lines 368-369: denoise_image again on the upscaled image, guarded by
\* args.denoise (DenoisePostNever: the variant without the second denoise)
DenoisePostNever(dn) == FALSE
\* (DenoisePostOnCuda: the variant that skips the second denoise on the CPU)
DenoisePostOnCuda(dn) == dn /\ device = "cuda"
DenoisePost(dn) == dn
ms_denoise_image_post ==
  /\ pc = "denoise2"
  /\ stageLog' = IF DenoisePost(denoise) THEN Log("denoise_image") ELSE stageLog
  /\ pc' = "boost"
  /\ LET r == Filtered(<<srW, srH>>) IN srW' = r[1] /\ srH' = r[2]
  /\ UNCHANGED <<cfgVars, modelVars, outVars, exitStatus, device, opened, origW,
                 origH, refW, refH, verdict>>
  /\ UNCHANGED reduceArg
  /\ UNCHANGED nonRunVars

\* line 370: boost_detail
ms_boost_detail ==
  /\ pc = "boost"
  /\ stageLog' = Log("boost_detail")
  /\ pc' = "edges"
  /\ LET r == Filtered(<<srW, srH>>) IN srW' = r[1] /\ srH' = r[2]
  /\ UNCHANGED <<cfgVars, modelVars, outVars, exitStatus, device, opened, origW,
                 origH, refW, refH, verdict>>
  /\ UNCHANGED reduceArg
  /\ UNCHANGED nonRunVars

\* lines 372-378: enhance_edges, or else the light sharpening
ms_enhance_edges ==
  /\ pc = "edges"
  /\ stageLog' = IF edges THEN Log("enhance_edges") ELSE Log("light_sharpen")
  /\ pc' = "save"
  /\ LET r == Filtered(<<srW, srH>>) IN srW' = r[1] /\ srH' = r[2]
  /\ UNCHANGED <<cfgVars, modelVars, outVars, exitStatus, device, opened, origW,
                 origH, refW, refH, verdict>>
  /\ UNCHANGED reduceArg
  /\ UNCHANGED nonRunVars

(* ---------------------- the other scripts' chains ---------------------- *)
\* preprocess_image (quality_enhance line 257, standalone line 176)
main_preprocess_image ==
  /\ pc = "preprocess"
  /\ stageLog' = Log("preprocess_image")
  /\ pc' = "upscale"
  /\ UNCHANGED <<cfgVars, modelVars, outVars, exitStatus, device, opened, origW,
                 origH, srW, srH, refW, refH, verdict>>
  /\ UNCHANGED reduceArg
  /\ UNCHANGED nonRunVars

\* postprocess_image_enhanced / postprocess_image / postprocess_text_logo
PostStages(sc) ==
  IF sc = "quality"
  THEN <<"enhance_color", "reduce_noise", "boost_detail", "enhance_edge_clarity",
         "reduce_mosaic">>
  ELSE IF sc = "standalone"
  THEN <<"postprocess_image">>
  ELSE <<"enhance_text_sharpness", "preserve_logo_edges", "remove_text_artifacts">>
main_postprocess ==
  /\ pc = "postprocess"
  /\ stageLog' = stageLog \o PostStages(script)
  /\ IF script = "text"
     THEN refW' = srW /\ refH' = srH
     ELSE UNCHANGED <<refW, refH>>
  /\ pc' = "save"
  /\ LET r == Filtered(<<srW, srH>>) IN srW' = r[1] /\ srH' = r[2]
  /\ UNCHANGED <<cfgVars, modelVars, outVars, exitStatus, device, opened, origW,
                 origH, verdict>>
  /\ UNCHANGED reduceArg
  /\ UNCHANGED nonRunVars

(* -------------------------------- save --------------------------------- *)
\* What the file system does with the output path:
\*   dir    the directory part of --output is empty, exists, or is missing
\*   mk     os.makedirs succeeds or raises
\*   wr     cv2.imwrite writes the file and returns True, writes nothing and
\*          returns False, or raises
DirStates == {"none", "exists", "missing"}
WriteResults == {"ok", "false", "raise"}

\* lines 384-394 of mosaic_superrecon.main (the same code ends the other three
\* scripts): the value cv2.imwrite returns is not read, main() falls off its end
\* and the process exits 0; an exception reaches the handler, sys.exit(1).
main_save ==
  /\ pc = "save"
  /\ \E dir \in DirStates, mkOk \in BOOLEAN, wr \in WriteResults :
       IF dir = "missing" /\ ~mkOk
       THEN /\ Exit1
            /\ writeResult' = "makedirs_raise"
            /\ UNCHANGED <<dirCreated, outWritten, outW, outH>>
       ELSE /\ dirCreated' = (dir = "missing")
            /\ writeResult' = wr
            /\ pc' = "done"
            /\ IF wr = "raise"
               THEN exitStatus' = 1 /\ UNCHANGED <<outWritten, outW, outH>>
               ELSE /\ exitStatus' = 0
                    /\ IF wr = "ok"
                       THEN outWritten' = TRUE /\ outW' = srW /\ outH' = srH
                       ELSE UNCHANGED <<outWritten, outW, outH>>
  /\ UNCHANGED <<cfgVars, modelVars, device, opened, origW, origH, srW, srH,
                 refW, refH, verdict, stageLog>>
  /\ UNCHANGED reduceArg
  /\ UNCHANGED nonRunVars

NextRun ==
  \/ Start \/ main_scale \/ main_open
  \/ ms_reduce_mosaic_artifacts \/ ms_denoise_image_pre
  \/ ms_process_with_esrgan \/ qe_upscale \/ qs_upscale \/ qt_upscale
  \/ main_verify \/ main_resize
  \/ ms_enhance_color \/ ms_denoise_image_post \/ ms_boost_detail \/ ms_enhance_edges
  \/ main_preprocess_image \/ main_postprocess
  \/ main_save

(* ------------------- the same command line, run again ------------------ *)
\* What a finished run leaves behind for an observer: the input it read, the
\* stages it applied, the image it handed to cv2.imwrite and the file written.
NoRun == [w |-> 0, h |-> 0, log |-> <<>>, iw |-> 0, ih |-> 0, ow |-> 0, oh |-> 0]
RunRecord == [w |-> origW, h |-> origH, log |-> stageLog, iw |-> srW, ih |-> srH,
              ow |-> outW, oh |-> outH]

\* The run took the fallback of the upscale: no model object was built
OnFallbackPath == upscaler = "lanczos" /\ ~modelMade

\* The user runs the same script with the same options once more, after a run
\* on the fallback path that wrote its output: the imports have the outcome
\* they had and argparse parses the same command line (cfgVars), everything
\* else starts afresh; the input file, the machine and the file system are
\* read anew by the actions of the second run.
Rerun ==
  /\ pc = "done" /\ first = NoRun
  /\ OnFallbackPath /\ outWritten
  /\ first' = RunRecord
  /\ pc' = "scale" /\ exitStatus' = 0 - 1
  /\ weightsExist' = FALSE /\ device' = "none"
  /\ opened' = FALSE /\ origW' = 0 /\ origH' = 0 /\ srW' = 0 /\ srH' = 0
  /\ refW' = 0 /\ refH' = 0
  /\ upscaler' = "none" /\ modelMade' = FALSE /\ predictCalls' = 0
  /\ modelRaised' = FALSE /\ libFactor' = 0 /\ verdict' = "none"
  /\ stageLog' = <<>> /\ dirCreated' = FALSE /\ outWritten' = FALSE
  /\ outW' = 0 /\ outH' = 0 /\ writeResult' = "none" /\ reduceArg' = <<>>
  /\ UNCHANGED cfgVars
  /\ UNCHANGED <<dlVars, tlVars, asVars, vfVars, mlVars, dgVars, ptVars>>

\* The command lines the two-run specification starts from: a scale that
\* needs the resize and the scale that does not
TwiceScales == {Num(Unit + Unit \div 2), Num(MODEL_SCALE * Unit)}
TwiceStrengths == {0, 3}

(* ================= the model path: whole image or tiles ================ *)
\* Widths and heights of the images handed to the model path: around the step
\* of the tile loop, around the tile size, and up to three tiles a side
\* (stepPastTile: the variant that adds the overlap instead)
stepPastTile == tile_size + overlap
step == tile_size - overlap
TileDims == {1, step, step + 1, tile_size, tile_size + 1, BigDim, 2 * step,
             2 * step + 1}
Min(a, b) == IF a < b THEN a ELSE b

\* Pixels of the canvas `result` that are watched: the corners of the crops,
\* scaled by 4 as the paste offsets are
SrcMarks == {0, step - 1, step, tile_size - 1, tile_size, 2 * step - 1, 2 * step,
             step + tile_size - 1}
Probes == {<<MODEL_SCALE * a, MODEL_SCALE * b>> : a \in SrcMarks, b \in SrcMarks}

\* Image.new("RGB", (target_w, target_h)): no tile has been pasted anywhere
BlankCanvas == [p \in Probes |-> 0]

InitTilesIdle ==
  /\ tlPc = "idle" /\ tlDevice = "none" /\ tlW = 0 /\ tlH = 0 /\ tlFactor = 0
  /\ tlX = 0 /\ tlY = 0 /\ tlCalls = <<>> /\ tlTiles = <<>> /\ tlPastes = <<>>
  /\ tlCanvas = BlankCanvas /\ tlWhole = FALSE /\ tlOut = <<0, 0>>
  /\ tlSource = "none"

\* The model has been built and its weights loaded; the image and the device
\* are what main() passes, the model upscales by tlFactor when it returns
InitTiles ==
  /\ tlPc = "branch" /\ tlDevice \in {"cpu", "cuda"}
  /\ tlW \in TileDims /\ tlH \in TileDims /\ tlFactor \in PredictFactors
  /\ tlX = 0 /\ tlY = 0 /\ tlCalls = <<>> /\ tlTiles = <<>> /\ tlPastes = <<>>
  /\ tlCanvas = BlankCanvas /\ tlWhole = FALSE /\ tlOut = <<0, 0>>
  /\ tlSource = "none"

\* An exception raised by predict leaves upscale_with_tiles and the try block:
\* the handler prints it and the upscale step returns the Lanczos resize of the
\* whole image to (int(w * 4), int(h * 4)); the list `tiles` is dropped.
\* (ExceptKeepTiles: the variant whose handler pastes the tiles it has)
ExceptKeepTiles ==
  /\ tlPc' = "fallback"
  /\ tlSource' = IF tlTiles = <<>> THEN "lanczos" ELSE "tiles"
  /\ tlOut' = <<tlW * MODEL_SCALE, tlH * MODEL_SCALE>>
ExceptFallback ==
  /\ tlPc' = "fallback"
  /\ tlSource' = "lanczos"
  /\ tlOut' = <<tlW * MODEL_SCALE, tlH * MODEL_SCALE>>

\* model.predict(img_pil) on the whole image: it raises, or returns an image
\* tlFactor times the input
predict_whole ==
  /\ tlCalls' = Append(tlCalls, <<0, 0, tlW, tlH>>)
  /\ tlWhole' = TRUE
  /\ \/ tlPc' = "returned" /\ tlOut' = <<tlFactor * tlW, tlFactor * tlH>>
        /\ tlSource' = "model"
     \/ ExceptFallback

\* process_with_esrgan lines 231-236 (quality_enhance.main lines 279-285):
\* upscale_with_tiles on the CPU for an image of more than 512 * 512 pixels,
\* one predict on the whole image otherwise
tl_branch ==
  /\ tlPc = "branch"
  /\ IF UseTiles(tlDevice, tlW, tlH)
     THEN tlPc' = "enter" /\ UNCHANGED <<tlCalls, tlWhole, tlOut, tlSource>>
     ELSE predict_whole
  /\ UNCHANGED <<tlDevice, tlW, tlH, tlFactor, tlX, tlY, tlTiles, tlPastes, tlCanvas>>
  /\ UNCHANGED nonTlVars

\* upscale_with_tiles(img_pil, model, device), lines 176-184: on cuda the whole
\* image is handed to predict, otherwise the loops over the crops begin
tl_enter ==
  /\ tlPc = "enter"
  /\ IF tlDevice = "cuda"
     THEN predict_whole
     ELSE tlPc' = "loop" /\ UNCHANGED <<tlCalls, tlWhole, tlOut, tlSource>>
  /\ UNCHANGED <<tlDevice, tlW, tlH, tlFactor, tlX, tlY, tlTiles, tlPastes, tlCanvas>>
  /\ UNCHANGED nonTlVars

\* The crop origin after (x, y) in
\*   for y in range(0, h, tile_size - overlap):
\*       for x in range(0, w, tile_size - overlap):
\* or <<-1, -1>> when both loops are exhausted
\* (NextCropColumnMajor: the variant with the loops nested the other way)
NextCropColumnMajor(x, y, w, h) ==
  IF y + step < h THEN <<x, y + step>>
  ELSE IF x + step < w THEN <<x + step, 0>>
  ELSE <<0 - 1, 0 - 1>>
NextCrop(x, y, w, h) ==
  IF x + step < w THEN <<x + step, y>>
  ELSE IF y + step < h THEN <<0, y + step>>
  ELSE <<0 - 1, 0 - 1>>

\* One iteration of the loop body, lines 187-194: crop, predict, append
tl_predict ==
  /\ tlPc = "loop"
  /\ LET right == Min(tlX + tile_size, tlW)
         bottom == Min(tlY + tile_size, tlH)
         nxt == NextCrop(tlX, tlY, tlW, tlH)
     IN /\ tlCalls' = Append(tlCalls, <<tlX, tlY, right, bottom>>)
        /\ \/ /\ tlTiles' = Append(tlTiles,
                                   [x |-> tlX * MODEL_SCALE, y |-> tlY * MODEL_SCALE,
                                    w |-> tlFactor * (right - tlX),
                                    h |-> tlFactor * (bottom - tlY)])
              /\ IF nxt[1] < 0
                 THEN tlPc' = "paste" /\ UNCHANGED <<tlX, tlY>>
                 ELSE tlPc' = "loop" /\ tlX' = nxt[1] /\ tlY' = nxt[2]
              /\ UNCHANGED <<tlOut, tlSource>>
           \/ ExceptFallback /\ UNCHANGED <<tlTiles, tlX, tlY>>
  /\ UNCHANGED <<tlDevice, tlW, tlH, tlFactor, tlPastes, tlCanvas, tlWhole>>
  /\ UNCHANGED nonTlVars

\* Which entry of `tiles` the k-th paste takes: `for x, y, tile in tiles`
\* (PasteIndexReversed: the variant that walks the list backwards)
PasteIndexReversed(k, n) == n + 1 - k
PasteIndex(k, n) == k

\* result.paste(tile, (x, y)): the pixels of the box the tile covers become the
\* tile's, whatever was there
paste(canvas, i, tile) ==
  [p \in Probes |->
     IF /\ tile.x <= p[1] /\ p[1] < tile.x + tile.w
        /\ tile.y <= p[2] /\ p[2] < tile.y + tile.h
        /\ p[1] < MODEL_SCALE * tlW /\ p[2] < MODEL_SCALE * tlH
     THEN i ELSE canvas[p]]

\* One iteration of the paste loop, lines 198-200, and the return after the last
tl_paste ==
  /\ tlPc = "paste"
  /\ LET n == Len(tlTiles)
         i == PasteIndex(Len(tlPastes) + 1, n)
     IN /\ tlCanvas' = paste(tlCanvas, i, tlTiles[i])
        /\ tlPastes' = Append(tlPastes, <<tlTiles[i].x, tlTiles[i].y>>)
        /\ IF Len(tlPastes) + 1 = n
           THEN /\ tlPc' = "returned" /\ tlSource' = "tiles"
                /\ tlOut' = <<tlW * MODEL_SCALE, tlH * MODEL_SCALE>>
           ELSE UNCHANGED <<tlPc, tlOut, tlSource>>
  /\ UNCHANGED <<tlDevice, tlW, tlH, tlFactor, tlX, tlY, tlCalls, tlTiles, tlWhole>>
  /\ UNCHANGED nonTlVars

NextTiles == tl_branch \/ tl_enter \/ tl_predict \/ tl_paste
\* upscale_with_tiles called on its own
NextTileFn == tl_enter \/ tl_predict \/ tl_paste

(* ============================ download_models ========================== *)
MODELS == {"RealESRGAN_x4plus"}
ModelNames == MODELS \cup {"unknown_model"}
ExpBytes == size_mb * MiB
Tol == ExpBytes \div 10
Abs(x) == IF x < 0 THEN 0 - x ELSE x

\* Sizes in bytes a file on disk, or a fetched file, is drawn from: empty,
\* truncated, one byte outside and inside either end of the tolerance, exact,
\* and twice the expected size.  Absent is -1.
FileSizes == {0, ExpBytes \div 2, ExpBytes - Tol - 1, ExpBytes - Tol, ExpBytes,
              ExpBytes + Tol, ExpBytes + Tol + 1, 2 * ExpBytes}
Absent == 0 - 1

\* verify_file(file_path, expected_size_mb): exists, and
\* abs(actual_size_mb - expected_size_mb) > expected_size_mb * 0.1 rejects.
\* Sizes are whole bytes; the comparison is the same in bytes times ten.
\* (verify_file_exists_only: the variant that skips the size check)
verify_file_exists_only(size, expected_mb) == size # Absent
\* (verify_file_strict: the variant that rejects a difference of exactly 10%)
verify_file_strict(size, expected_mb) ==
  /\ size # Absent
  /\ (expected_mb # 0 => 10 * Abs(size - expected_mb * MiB) < expected_mb * MiB)
verify_file(size, expected_mb) ==
  /\ size # Absent
  /\ (expected_mb # 0 => ~(10 * Abs(size - expected_mb * MiB) > expected_mb * MiB))

\* Expected sizes verify_file is called with: none (None and 0 are both
\* falsy), 5 MB (a tenth of it is a whole number of bytes) and the 67 MB of
\* MODELS; in double precision expected * 0.1 is exact for the first two and
\* differs from 6.7 by less than one byte's 2^-20 MB for the third, so the
\* comparison of the code and the one in whole bytes agree on every file.
ExpectedSizes == {0, 5, size_mb}
\* File sizes around both ends of the tolerance of an expected size
SizesAround(e) ==
  LET b == e * MiB
      d == b \div 10
  IN {0, b - d - 1, b - d, b - d + 1, b, b + d - 1, b + d, b + d + 1, 2 * b}
VerifySizes == UNION {SizesAround(e) : e \in ExpectedSizes \ {0}}
Contents == {"checkpoint", "other"}

InitVerifyIdle ==
  /\ vfPc = "idle" /\ vfSize = Absent /\ vfContent = "none" /\ vfExpected = 0
  /\ vfResult = FALSE
InitVerify ==
  /\ vfPc = "call" /\ vfSize \in {Absent} \cup VerifySizes
  /\ vfContent \in (IF vfSize = Absent THEN {"none"} ELSE Contents)
  /\ vfExpected \in ExpectedSizes /\ vfResult = FALSE

\* verify_file(file_path, expected_size_mb), lines 58-70: only exists() and
\* stat().st_size are read
verify_file_call ==
  /\ vfPc = "call"
  /\ vfResult' = verify_file(vfSize, vfExpected)
  /\ vfPc' = "returned"
  /\ UNCHANGED <<vfSize, vfContent, vfExpected>>
  /\ UNCHANGED nonVfVars

NextVerify == verify_file_call

InitDl ==
  /\ dlPc = "idle" /\ dlName = "none" /\ dlForce = FALSE
  /\ dlFetches = 0 /\ dlRet = "none" /\ dlCalls = 0
  /\ dlPreValid = "none" /\ dlFetchOk = "none" /\ dlPostValid = "none"
  /\ dlFile0 = Absent /\ dlFetched = Absent

\* A caller (download_all_models, main) invokes download_model(name, dir, force)
download_model_call ==
  /\ dlPc \in {"idle", "returned"}
  /\ dlCalls < MaxCalls
  /\ \E name \in ModelNames, force \in BOOLEAN :
       dlName' = name /\ dlForce' = force
  /\ dlCalls' = dlCalls + 1
  /\ dlPc' = "lookup"
  /\ dlFetches' = 0 /\ dlRet' = "none"
  /\ dlPreValid' = "none" /\ dlFetchOk' = "none" /\ dlPostValid' = "none"
  /\ dlFile0' = dlFile /\ dlFetched' = Absent
  /\ UNCHANGED dlFile
  /\ UNCHANGED nonDlVars

\* lines 74-79: unknown model name
download_model_lookup ==
  /\ dlPc = "lookup"
  /\ IF dlName \notin MODELS
     THEN dlRet' = "False" /\ dlPc' = "returned"
     ELSE dlPc' = "existing" /\ UNCHANGED dlRet
  /\ UNCHANGED <<dlName, dlForce, dlFile, dlFetches, dlCalls, dlPreValid,
                 dlFetchOk, dlPostValid, dlFile0, dlFetched>>
  /\ UNCHANGED nonDlVars

\* line 82: `if model_path.exists() and not force`
\* (CheckExistingDespiteForce: the variant that ignores --force)
CheckExistingDespiteForce(exists, force) == exists
CheckExisting(exists, force) == exists /\ ~force

\* lines 81-90: an existing file is accepted only if it verifies
download_model_existing ==
  /\ dlPc = "existing"
  /\ IF CheckExisting(dlFile # Absent, dlForce)
     THEN IF verify_file(dlFile, size_mb)
          THEN dlPreValid' = "valid" /\ dlRet' = "True" /\ dlPc' = "returned"
          ELSE dlPreValid' = "invalid" /\ dlPc' = "fetch" /\ UNCHANGED dlRet
     ELSE dlPc' = "fetch" /\ UNCHANGED <<dlPreValid, dlRet>>
  /\ UNCHANGED <<dlName, dlForce, dlFile, dlFetches, dlCalls, dlFetchOk,
                 dlPostValid, dlFile0, dlFetched>>
  /\ UNCHANGED nonDlVars

\* download_file(url, model_path, ...): urlretrieve writes what the server sent
\* to model_path and returns, or an exception is caught and False returned; a
\* failed transfer leaves the path untouched or holding a partial file.
download_file ==
  /\ dlPc = "fetch"
  /\ dlFetches' = dlFetches + 1
  /\ \/ \E s \in FileSizes :
          dlFile' = s /\ dlFetched' = s /\ dlFetchOk' = "True"
     \/ \E s \in {dlFile} \cup {x \in FileSizes : x < ExpBytes} :
          dlFile' = s /\ dlFetchOk' = "False" /\ UNCHANGED dlFetched
  /\ dlPc' = "verify"
  /\ UNCHANGED <<dlName, dlForce, dlCalls, dlRet, dlPreValid, dlPostValid,
                 dlFile0>>
  /\ UNCHANGED nonDlVars

\* What download_model does when the fetched file fails verification:
\* it prints a warning and returns True (line 107)
\* (AfterBadFetchRetry: the variant that fetches again; AfterBadFetchReject:
\* the variant that returns False)
AfterBadFetchRetry == dlPc' = "fetch" /\ UNCHANGED dlRet
AfterBadFetchReject == dlRet' = "False" /\ dlPc' = "returned"
AfterBadFetch == dlRet' = "True" /\ dlPc' = "returned"

\* lines 99-109
download_model_verify ==
  /\ dlPc = "verify"
  /\ IF dlFetchOk = "True"
     THEN IF verify_file(dlFile, size_mb)
          THEN dlPostValid' = "valid" /\ dlRet' = "True" /\ dlPc' = "returned"
          ELSE dlPostValid' = "invalid" /\ AfterBadFetch
     ELSE dlRet' = "False" /\ dlPc' = "returned" /\ UNCHANGED dlPostValid
  /\ UNCHANGED <<dlName, dlForce, dlFile, dlFetches, dlCalls, dlPreValid,
                 dlFetchOk, dlFile0, dlFetched>>
  /\ UNCHANGED nonDlVars

\* main(), lines 149-155: sys.exit(0 if success else 1), for one model and for
\* download_all_models over the single entry of MODELS alike
download_cli_exit(success) == IF success = "True" THEN 0 ELSE 1

NextDl ==
  \/ download_model_call \/ download_model_lookup \/ download_model_existing
  \/ download_file \/ download_model_verify

(* ============================ utils/model_loader ======================= *)
WeightsDir == "weights"
\* get_model_path(model_name): weights_dir / f"{model_name}.pth"
\* (get_model_path_default: the variant that always names the default model)
get_model_path_default(model_name) == <<WeightsDir, "RealESRGAN_x4plus", ".pth">>
get_model_path(model_name) == <<WeightsDir, model_name, ".pth">>

LoaderNames == {"RealESRGAN_x4plus", "RealESRGAN_x2plus"}
LoaderScales == {2, 4}
NoModel == [device |-> "none", scale |-> 0, weights |-> <<>>]

InitLoaderIdle ==
  /\ mlPc = "idle" /\ mlDeviceArg = "none" /\ mlScale = 0 /\ mlName = "none"
  /\ mlCuda = FALSE /\ mlFiles = {} /\ mlModel = NoModel /\ mlDevice = "none"
  /\ mlRaised = "none"
\* Before the module is imported: the arguments of the call to come, the
\* machine and the files of the weights directory
InitLoader ==
  /\ mlPc = "import"
  /\ mlDeviceArg \in {"auto", "cuda", "cpu"} /\ mlScale \in LoaderScales
  /\ mlName \in LoaderNames /\ mlCuda \in BOOLEAN
  /\ mlFiles \in SUBSET {get_model_path(n) : n \in LoaderNames}
  /\ mlModel = NoModel /\ mlDevice = "none" /\ mlRaised = "none"

\* lines 18-23: torch and realesrgan are both required by this module
ml_import ==
  /\ mlPc = "import"
  /\ \/ mlPc' = "call" /\ UNCHANGED mlRaised
     \/ mlPc' = "exit1" /\ mlRaised' = "ImportError"
  /\ UNCHANGED <<mlDeviceArg, mlScale, mlName, mlCuda, mlFiles, mlModel, mlDevice>>
  /\ UNCHANGED nonMlVars

\* load_esrgan_model(device, scale, model_name), lines 46-65; the constructor
\* or load_weights of the library may raise
load_esrgan_model ==
  /\ mlPc = "call"
  /\ LET dev == IF mlDeviceArg = "auto"
                THEN (IF mlCuda THEN "cuda" ELSE "cpu")
                ELSE mlDeviceArg
         model_path == get_model_path(mlName)
     IN IF model_path \notin mlFiles
        THEN /\ mlPc' = "raised" /\ mlRaised' = "FileNotFoundError"
             /\ UNCHANGED <<mlModel, mlDevice>>
        ELSE \/ /\ mlModel' = [device |-> dev, scale |-> mlScale, weights |-> model_path]
                /\ mlDevice' = dev
                /\ mlPc' = "returned" /\ UNCHANGED mlRaised
             \/ /\ mlModel' \in {NoModel,
                                [device |-> dev, scale |-> mlScale, weights |-> <<>>]}
                /\ mlPc' = "raised" /\ mlRaised' = "library"
                /\ UNCHANGED mlDevice
  /\ UNCHANGED <<mlDeviceArg, mlScale, mlName, mlCuda, mlFiles>>
  /\ UNCHANGED nonMlVars

NextLoader == ml_import \/ load_esrgan_model

(* =============================== diagnose ============================== *)
\* check_python_version(), lines 20-27, on sys.version_info = (major, minor)
check_python_version(major, minor) ==
  [status |-> IF major >= 3 /\ minor >= 8 THEN "ok" ELSE "error",
   message |-> IF major < 3 \/ minor < 8 THEN "Python 3.8+ required" ELSE "OK"]

\* required_libs of run_diagnosis, lines 140-147
RequiredLibs == {"torch", "torchvision", "cv2", "numpy", "PIL", "realesrgan"}
\* required_models, lines 153-155
RequiredModels == {"RealESRGAN_x4plus"}
\* scripts of check_script_files, lines 85-89
RequiredScripts == {"mosaic_superrecon.py", "download_models.py", "quality_enhance.py"}

\* check_library, lines 29-43: only an ImportError is turned into a status
check_library(outcome) ==
  [status |-> IF outcome = "ok" THEN "ok" ELSE "error", installed |-> outcome = "ok"]
\* check_model_file, lines 45-55, and an entry of check_script_files
check_exists(exists) ==
  [status |-> IF exists THEN "ok" ELSE "error", exists |-> exists]
\* check_gpu, lines 57-82
check_gpu(torch, cuda) ==
  IF torch = "ImportError" THEN [status |-> "error", available |-> FALSE]
  ELSE [status |-> "ok", available |-> cuda]
\* an entry of check_paths, lines 104-126
check_path(exists) ==
  [status |-> IF exists THEN "ok" ELSE "warning", exists |-> exists]

\* The overall status computed by print_diagnosis, lines 177-235
\* (print_diagnosis_with_python: the variant that also wants the python
\* status to be ok)
print_diagnosis_with_python(d) ==
  /\ d.python.status = "ok"
  /\ \A l \in RequiredLibs : d.libraries[l].installed
  /\ \A m \in RequiredModels : d.models[m].exists
  /\ \A s \in RequiredScripts : d.scripts[s].exists
print_diagnosis(d) ==
  /\ \A l \in RequiredLibs : d.libraries[l].installed
  /\ \A m \in RequiredModels : d.models[m].exists
  /\ \A s \in RequiredScripts : d.scripts[s].exists

NoDiagnosis == [python |-> "none"]
\* sys.version_info of the interpreters considered
Versions == {<<2, 7>>, <<3, 7>>, <<3, 8>>, <<3, 12>>, <<4, 0>>, <<4, 8>>}
\* How the imports end: each with success or ImportError, or one of them with
\* another exception while the others succeed
ImportWorlds ==
  [RequiredLibs -> {"ok", "ImportError"}]
  \cup {[l \in RequiredLibs |-> IF l = bad THEN "other" ELSE "ok"] : bad \in RequiredLibs}

InitDiagIdle ==
  /\ dgPc = "idle" /\ dgVersion = <<0, 0>>
  /\ dgImports = [l \in RequiredLibs |-> "ok"] /\ dgCuda = FALSE
  /\ dgWeightsDir = FALSE /\ dgModelExists = FALSE /\ dgScripts = {}
  /\ dgJson = FALSE /\ dgDiagnosis = NoDiagnosis /\ dgReady = "none"
  /\ dgJsonPrinted = FALSE /\ dgExit = 0 - 1
InitDiag ==
  /\ dgPc = "run" /\ dgVersion \in Versions
  /\ dgImports \in ImportWorlds
  /\ dgCuda \in (IF dgImports["torch"] = "ok" THEN BOOLEAN ELSE {FALSE})
  /\ dgWeightsDir \in BOOLEAN
  /\ dgModelExists \in (IF dgWeightsDir THEN BOOLEAN ELSE {FALSE})
  /\ dgScripts \in SUBSET RequiredScripts
  /\ dgJson \in BOOLEAN /\ dgDiagnosis = NoDiagnosis /\ dgReady = "none"
  /\ dgJsonPrinted = FALSE /\ dgExit = 0 - 1

\* run_diagnosis(), lines 128-160: an import that raises anything but
\* ImportError leaves check_gpu or check_library and reaches the handler of
\* main(), lines 251-255
dg_run_diagnosis ==
  /\ dgPc = "run"
  /\ IF \E l \in RequiredLibs : dgImports[l] = "other"
     THEN /\ dgPc' = "done" /\ dgExit' = 1
          /\ UNCHANGED dgDiagnosis
     ELSE /\ dgDiagnosis' =
               [python |-> check_python_version(dgVersion[1], dgVersion[2]),
                libraries |-> [l \in RequiredLibs |-> check_library(dgImports[l])],
                models |-> [m \in RequiredModels |-> check_exists(dgModelExists)],
                gpu |-> check_gpu(dgImports["torch"], dgCuda),
                scripts |-> [s \in RequiredScripts |-> check_exists(s \in dgScripts)],
                paths |-> [scripts |-> check_path(dgScripts # {}),
                           weights |-> check_path(dgWeightsDir)]]
          /\ dgPc' = "print" /\ UNCHANGED dgExit
  /\ UNCHANGED <<dgEnv, dgReady, dgJsonPrinted>>
  /\ UNCHANGED nonDgVars

\* is_ready = print_diagnosis(diagnosis), line 244
dg_print_diagnosis ==
  /\ dgPc = "print"
  /\ dgReady' = IF print_diagnosis(dgDiagnosis) THEN "READY" ELSE "ISSUES FOUND"
  /\ dgPc' = "exit"
  /\ UNCHANGED <<dgEnv, dgDiagnosis, dgJsonPrinted, dgExit>>
  /\ UNCHANGED nonDgVars

\* lines 246-250: the JSON document if asked for, then
\* sys.exit(0 if is_ready else 1), which `except Exception` does not catch
dg_exit ==
  /\ dgPc = "exit"
  /\ dgJsonPrinted' = dgJson
  /\ dgExit' = IF dgReady = "READY" THEN 0 ELSE 1
  /\ dgPc' = "done"
  /\ UNCHANGED <<dgEnv, dgDiagnosis, dgReady>>
  /\ UNCHANGED nonDgVars

NextDiag == dg_run_diagnosis \/ dg_print_diagnosis \/ dg_exit

(* ========================= where the weights are ======================= *)
\* A path is absolute or relative and has a sequence of components; the
\* repository is /repo with its scripts in /repo/scripts, /home is elsewhere.
Rel(parts) == [abs |-> FALSE, parts |-> parts]
AbsPath(parts) == [abs |-> TRUE, parts |-> parts]
RepoRoot == <<"repo">>
ScriptsRoot == <<"repo", "scripts">>
Cwds == {RepoRoot, ScriptsRoot, <<"home">>}
\* What is typed after `python` to start a script of the repository
ScriptArg(cwd, file) ==
  IF cwd = RepoRoot THEN Rel(<<"scripts", file>>)
  ELSE IF cwd = ScriptsRoot THEN Rel(<<file>>)
  ELSE Rel(<<"..", "repo", "scripts", file>>)
\* os.path.dirname / Path.parent: the last component is dropped; the
\* directory of a bare file name is the empty relative path
dirname(p) ==
  IF p.parts = <<>> THEN p ELSE [p EXCEPT !.parts = SubSeq(p.parts, 1, Len(p.parts) - 1)]
\* os.path.join(p, name) / Path(p) / name
join(p, name) == [p EXCEPT !.parts = Append(p.parts, name)]
\* The file a path names when the process runs in cwd
RECURSIVE Normalize(_, _)
Normalize(done, rest) ==
  IF rest = <<>> THEN done
  ELSE IF Head(rest) = ".."
       THEN Normalize(SubSeq(done, 1, Len(done) - 1), Tail(rest))
       ELSE Normalize(Append(done, Head(rest)), Tail(rest))
Resolve(cwd, p) == IF p.abs THEN Normalize(<<>>, p.parts) ELSE Normalize(cwd, p.parts)

\* __file__ of the script being run: absolute when the interpreter makes it
\* so, otherwise what was typed
file_of_script(cwd, absFile, file) ==
  IF absFile THEN AbsPath(Append(ScriptsRoot, file)) ELSE ScriptArg(cwd, file)

\* download_models.py: Path(weights_dir) / f"{model_name}.pth", weights_dir
\* "weights" by default
download_model_path(name) == join(Rel(<<"weights">>), name)
\* diagnose.py check_model_file: Path("weights") / f"{model_name}.pth"
diagnose_model_path(name) == join(Rel(<<"weights">>), name)
\* the enhancement scripts:
\* os.path.join(os.path.dirname(os.path.dirname(__file__)), "weights"), name
script_model_path(cwd, absFile, file, name) ==
  join(join(dirname(dirname(file_of_script(cwd, absFile, file))), "weights"), name)
\* utils/model_loader.py: Path(__file__).parent.parent.parent / "weights";
\* __file__ of an imported module is absolute
loader_model_path(name) ==
  join(join(dirname(dirname(dirname(
    AbsPath(<<"repo", "scripts", "utils", "model_loader.py">>)))), "weights"), name)

EnhanceScripts == {"mosaic_superrecon.py", "quality_enhance.py",
                   "quality_enhance_standalone.py", "quality_enhance_text.py"}
Consumers == EnhanceScripts \cup {"model_loader.py", "diagnose.py"}
ModelFile == "RealESRGAN_x4plus.pth"
\* The file a consumer started in cwd tests for existence
LookedAt(c, cwd, absFile) ==
  IF c \in EnhanceScripts THEN Resolve(cwd, script_model_path(cwd, absFile, c, ModelFile))
  ELSE IF c = "model_loader.py" THEN Resolve(cwd, loader_model_path(ModelFile))
  ELSE Resolve(cwd, diagnose_model_path(ModelFile))

NotLooked == [c \in Consumers |-> <<>>]
InitPathsIdle ==
  /\ ptPc = "idle" /\ ptCwd = RepoRoot /\ ptAbsFile = TRUE /\ ptFiles = {}
  /\ ptStored = <<>> /\ ptLooked = NotLooked
\* A clone without weights, in any of the working directories
InitPaths ==
  /\ ptPc = "download" /\ ptCwd \in Cwds /\ ptAbsFile \in BOOLEAN /\ ptFiles = {}
  /\ ptStored = <<>> /\ ptLooked = NotLooked

\* python download_models.py with default options: the model is stored, or
\* the download fails and nothing is
pt_download ==
  /\ ptPc = "download"
  /\ \/ LET at == Resolve(ptCwd, download_model_path(ModelFile))
        IN ptFiles' = ptFiles \cup {at} /\ ptStored' = at
     \/ UNCHANGED <<ptFiles, ptStored>>
  /\ ptPc' = "use"
  /\ UNCHANGED <<ptCwd, ptAbsFile, ptLooked>>
  /\ UNCHANGED nonPtVars

\* A consumer is started from the same working directory and tests its path
pt_look ==
  /\ ptPc = "use"
  /\ \E c \in Consumers :
       /\ ptLooked[c] = <<>>
       /\ ptLooked' = [ptLooked EXCEPT ![c] = LookedAt(c, ptCwd, ptAbsFile)]
  /\ UNCHANGED <<ptPc, ptCwd, ptAbsFile, ptFiles, ptStored>>
  /\ UNCHANGED nonPtVars

NextPaths == pt_download \/ pt_look

(* ============================== auto_setup ============================= *)
Steps == {"diagnosis", "install", "download", "verify"}
NoResults == [s \in Steps |-> "none"]
Begin(s) == Append(asLog, <<s, "begin">>)
End(s) == Append(asLog, <<s, "end">>)

InitSetupIdle ==
  /\ asPc = "idle" /\ asExit = 0 - 1 /\ asLog = <<>> /\ asRes = NoResults
  /\ asCwdRoot = TRUE /\ asLibs = FALSE /\ asWeights = "absent" /\ asMissing = "none"

\* auto_setup has printed its banner and waits in input().  The environment:
\* the working directory is the repository root or not, the libraries that
\* diagnose.py imports are importable or not, ./weights/RealESRGAN_x4plus.pth
\* is absent, present with a size outside the tolerance, or present and
\* verifiable, and at most one of the files auto_setup looks for is missing.
InitSetup ==
  /\ asPc = "prompt" /\ asExit = 0 - 1 /\ asLog = <<>> /\ asRes = NoResults
  /\ asCwdRoot \in BOOLEAN /\ asLibs \in BOOLEAN
  /\ asWeights \in {"absent", "bad", "good"}
  /\ asMissing \in {"none", "diagnose.py", "requirements.txt", "download_models.py"}

\* sys.exit(1) of main(): the failed install, the last else branch, and the
\* handlers of KeyboardInterrupt and Exception
SetupExit(code) == asPc' = "done" /\ asExit' = code

\* The handlers around the try block of main(), lines 142-149: `except
\* KeyboardInterrupt` and `except Exception`, both ending in sys.exit(1).
\* sys.exit raises SystemExit, which derives from BaseException only.
\* (HandlerCatchesAll: the variant with a bare `except:`)
HandlerCatchesAll(exc) == TRUE
HandlerCatches(exc) == exc \in {"KeyboardInterrupt", "Exception"}
\* sys.exit(code) inside the try block
sys_exit(code) ==
  IF HandlerCatches("SystemExit") THEN SetupExit(1) ELSE SetupExit(code)

\* line 110: input() returns, or raises EOFError / KeyboardInterrupt outside
\* the try block (status 1, or the status of a process ended by SIGINT)
as_prompt ==
  /\ asPc = "prompt"
  /\ \/ asPc' = "diagnosis" /\ UNCHANGED asExit
     \/ \E code \in {1, 130} : SetupExit(code)
  /\ UNCHANGED <<asLog, asRes, asEnv>>
  /\ UNCHANGED nonAsVars

\* The exit status of diagnose.py, lines 233-250: READY iff every library of
\* required_libs imports, ./weights/<model>.pth exists and the three scripts
\* exist under ./scripts; the Python version and the paths do not count.
diagnose_exit ==
  IF /\ asLibs /\ asWeights # "absent"
     /\ asCwdRoot /\ asMissing # "download_models.py"
  THEN 0 ELSE 1

\* A step begins: its banner is printed, then the file it needs is looked for
\* (not by verify_setup); a missing file makes the step end at once, returning
\* False, otherwise the child process is started and the step waits for it.
\* subprocess.run may raise, which the handler of main() turns into exit 1.
StepBegin(s, file, waitPc, afterFalse) ==
  /\ IF file # "none" /\ asMissing = file
     THEN /\ asLog' = Append(Begin(s), <<s, "end">>)
          /\ asRes' = [asRes EXCEPT ![s] = "fail"]
          /\ afterFalse
     ELSE /\ asLog' = Begin(s)
          /\ \/ asPc' = waitPc /\ UNCHANGED <<asExit, asRes>>
             \/ SetupExit(1) /\ UNCHANGED asRes
  /\ UNCHANGED asEnv
  /\ UNCHANGED nonAsVars

\* What main() does with the boolean of install_requirements, lines 118-121
\* (AfterInstallLenient: the variant that warns and continues, as for the
\* diagnosis and the download)
AfterInstallLenient(ok) == asPc' = "download" /\ UNCHANGED asExit
AfterInstall(ok) == IF ok THEN asPc' = "download" /\ UNCHANGED asExit ELSE sys_exit(1)

\* lines 114-115: run_diagnosis; a False only prints a warning
as_run_diagnosis ==
  /\ asPc = "diagnosis"
  /\ StepBegin("diagnosis", "diagnose.py", "diagnosis_wait",
               asPc' = "install" /\ UNCHANGED asExit)
as_diagnosis_done ==
  /\ asPc = "diagnosis_wait"
  /\ asLog' = End("diagnosis")
  /\ asRes' = [asRes EXCEPT !["diagnosis"] = IF diagnose_exit = 0 THEN "ok" ELSE "fail"]
  /\ asPc' = "install"
  /\ UNCHANGED <<asExit, asEnv>>
  /\ UNCHANGED nonAsVars

\* lines 118-121: install_requirements; pip ends with status 0 or not, and a
\* successful pip run leaves the libraries importable or not
as_install_requirements ==
  /\ asPc = "install"
  /\ StepBegin("install", "requirements.txt", "install_wait", AfterInstall(FALSE))
as_install_done ==
  /\ asPc = "install_wait"
  /\ asLog' = End("install")
  /\ \E ok \in BOOLEAN, importable \in BOOLEAN :
       /\ asRes' = [asRes EXCEPT !["install"] = IF ok THEN "ok" ELSE "fail"]
       /\ asLibs' = (asLibs \/ (ok /\ importable))
       /\ AfterInstall(ok)
  /\ UNCHANGED <<asCwdRoot, asWeights, asMissing>>
  /\ UNCHANGED nonAsVars

\* lines 124-126: download_models; download_models.py without arguments exits
\* 0 iff download_model returned True: the file was there and verified, or a
\* fetch completed (with a verifiable file or not)
as_download_models ==
  /\ asPc = "download"
  /\ StepBegin("download", "download_models.py", "download_wait",
               asPc' = "verify" /\ UNCHANGED asExit)
as_download_done ==
  /\ asPc = "download_wait"
  /\ asLog' = End("download")
  /\ IF asWeights = "good"
     THEN asRes' = [asRes EXCEPT !["download"] = "ok"] /\ UNCHANGED asWeights
     ELSE \/ \E got \in {"good", "bad"} :
               asWeights' = got /\ asRes' = [asRes EXCEPT !["download"] = "ok"]
          \/ \E left \in {asWeights, "bad"} :
               asWeights' = left /\ asRes' = [asRes EXCEPT !["download"] = "fail"]
  /\ asPc' = "verify"
  /\ UNCHANGED <<asExit, asCwdRoot, asLibs, asMissing>>
  /\ UNCHANGED nonAsVars

\* lines 129-140: verify_setup runs diagnose.py --json (without looking for the
\* file first: a missing script makes the interpreter exit 2)
as_verify_setup ==
  /\ asPc = "verify"
  /\ StepBegin("verify", "none", "verify_wait", FALSE)
as_verify_done ==
  /\ asPc = "verify_wait"
  /\ asLog' = End("verify")
  /\ LET ok == asMissing # "diagnose.py" /\ diagnose_exit = 0
     IN /\ asRes' = [asRes EXCEPT !["verify"] = IF ok THEN "ok" ELSE "fail"]
        /\ sys_exit(IF ok THEN 0 ELSE 1)
  /\ UNCHANGED asEnv
  /\ UNCHANGED nonAsVars

NextSetup ==
  \/ as_prompt
  \/ as_run_diagnosis \/ as_diagnosis_done
  \/ as_install_requirements \/ as_install_done
  \/ as_download_models \/ as_download_done
  \/ as_verify_setup \/ as_verify_done

(* ========================== specifications ============================= *)
\* The parts of the program a specification does not exercise stay as they are
\* before they start.
InitRest ==
  /\ first = NoRun /\ InitTilesIdle /\ InitSetupIdle /\ InitVerifyIdle
  /\ InitLoaderIdle /\ InitDiagIdle /\ InitPathsIdle

\* One run of an enhancement script; the downloader is not running.
Init == InitRun /\ InitDl /\ dlFile = Absent /\ InitRest
Next == NextRun
Spec == Init /\ [][Next]_vars

\* Calls of download_model on a weights directory in any initial state; no
\* enhancement script is running.
InitDownload == InitRun /\ InitDl /\ dlFile \in {Absent} \cup FileSizes /\ InitRest
SpecDl == InitDownload /\ [][NextDl]_vars

\* Two runs of one command line: the state after the imports and argparse of
\* the first run, for every script and a selection of its options; then the
\* first run, Rerun, and the second run.
InitTwice ==
  /\ script \in Scripts /\ pc = "scale" /\ exitStatus = 0 - 1
  /\ scale \in TwiceScales
  /\ reqImport = "ok"
  /\ optImport \in {"none", "ok", "ImportError", "other"}
  /\ (optImport = "none") = (script = "standalone")
  /\ (optImport = "other" => script = "text")
  /\ hasLib = (optImport = "ok")
  /\ importMsg = IF optImport \in {"ImportError", "other"} THEN "warning" ELSE "none"
  /\ IF script = "mosaic"
     THEN /\ strength \in TwiceStrengths /\ denoise \in BOOLEAN /\ edges \in BOOLEAN
          /\ deviceArg \in {"auto", "cuda", "cpu"}
     ELSE strength = 3 /\ denoise = FALSE /\ edges = FALSE /\ deviceArg = "auto"
  /\ weightsExist = FALSE /\ device = "none"
  /\ opened = FALSE /\ origW = 0 /\ origH = 0 /\ srW = 0 /\ srH = 0
  /\ refW = 0 /\ refH = 0
  /\ upscaler = "none" /\ modelMade = FALSE /\ predictCalls = 0
  /\ modelRaised = FALSE /\ libFactor = 0 /\ verdict = "none"
  /\ stageLog = <<>> /\ dirCreated = FALSE /\ outWritten = FALSE
  /\ outW = 0 /\ outH = 0 /\ writeResult = "none" /\ reduceArg = <<>>
  /\ InitDl /\ dlFile = Absent /\ InitRest
NextTwice ==
  \/ main_scale \/ main_open
  \/ ms_reduce_mosaic_artifacts \/ ms_denoise_image_pre
  \/ ms_process_with_esrgan \/ qe_upscale \/ qs_upscale \/ qt_upscale
  \/ main_verify \/ main_resize
  \/ ms_enhance_color \/ ms_denoise_image_post \/ ms_boost_detail \/ ms_enhance_edges
  \/ main_preprocess_image \/ main_postprocess
  \/ main_save
  \/ Rerun
SpecTwice == InitTwice /\ [][NextTwice]_vars

\* The model path of one upscale, for every device and a selection of image
\* sizes; no script is running around it.
InitModelPath ==
  /\ InitRun /\ InitDl /\ dlFile = Absent /\ first = NoRun /\ InitTiles
  /\ InitSetupIdle /\ InitVerifyIdle /\ InitLoaderIdle /\ InitDiagIdle
  /\ InitPathsIdle
SpecTiles == InitModelPath /\ [][NextTiles]_vars

\* upscale_with_tiles called directly, on every device and image size of the
\* selection (the scripts call it for large images on the CPU only).
InitTileFn ==
  /\ InitRun /\ InitDl /\ dlFile = Absent /\ first = NoRun
  /\ tlPc = "enter" /\ tlDevice \in {"cpu", "cuda"}
  /\ tlW \in TileDims /\ tlH \in TileDims /\ tlFactor \in PredictFactors
  /\ tlX = 0 /\ tlY = 0 /\ tlCalls = <<>> /\ tlTiles = <<>> /\ tlPastes = <<>>
  /\ tlCanvas = BlankCanvas /\ tlWhole = FALSE /\ tlOut = <<0, 0>>
  /\ tlSource = "none"
  /\ InitSetupIdle /\ InitVerifyIdle /\ InitLoaderIdle /\ InitDiagIdle
  /\ InitPathsIdle
SpecTileFn == InitTileFn /\ [][NextTileFn]_vars

\* One run of auto_setup in every environment; nothing else is running.
InitAutoSetup ==
  /\ InitRun /\ InitDl /\ dlFile = Absent /\ first = NoRun /\ InitTilesIdle
  /\ InitSetup /\ InitVerifyIdle /\ InitLoaderIdle /\ InitDiagIdle
  /\ InitPathsIdle
SpecSetup == InitAutoSetup /\ [][NextSetup]_vars

\* One call of verify_file on every file and expected size of the selection.
InitVerifyFile ==
  /\ InitRun /\ InitDl /\ dlFile = Absent /\ first = NoRun /\ InitTilesIdle
  /\ InitSetupIdle /\ InitVerify /\ InitLoaderIdle /\ InitDiagIdle
  /\ InitPathsIdle
SpecVerify == InitVerifyFile /\ [][NextVerify]_vars

\* One import of utils/model_loader and one call of load_esrgan_model.
InitModelLoader ==
  /\ InitRun /\ InitDl /\ dlFile = Absent /\ first = NoRun /\ InitTilesIdle
  /\ InitSetupIdle /\ InitVerifyIdle /\ InitLoader /\ InitDiagIdle
  /\ InitPathsIdle
SpecLoader == InitModelLoader /\ [][NextLoader]_vars

\* One run of diagnose.py in every environment of the selection.
InitDiagnose ==
  /\ InitRun /\ InitDl /\ dlFile = Absent /\ first = NoRun /\ InitTilesIdle
  /\ InitSetupIdle /\ InitVerifyIdle /\ InitLoaderIdle /\ InitDiag
  /\ InitPathsIdle
SpecDiag == InitDiagnose /\ [][NextDiag]_vars

\* A download with default options, then the consumers, all started from one
\* working directory.
InitWeightPaths ==
  /\ InitRun /\ InitDl /\ dlFile = Absent /\ first = NoRun /\ InitTilesIdle
  /\ InitSetupIdle /\ InitVerifyIdle /\ InitLoaderIdle /\ InitDiagIdle
  /\ InitPaths
SpecPaths == InitWeightPaths /\ [][NextPaths]_vars

(* =============================== claims ================================ *)
\* Helpers of the claims below (statements about the runs, not code).
Done == pc = "done"
Exit0 == pc = "done" /\ exitStatus = 0
OptSeq(b, s) == IF b THEN <<s>> ELSE <<>>
IsPrefix(a, b) == Len(a) <= Len(b) /\ SubSeq(b, 1, Len(a)) = a
\* round() of Python 3 (ties to even) of w * scale, for a scale that is a number
PyRound(w, s) ==
  LET p == w * s.n
      q == p \div Unit
      r == p % Unit
  IN IF 2 * r > Unit THEN q + 1
     ELSE IF 2 * r < Unit THEN q
     ELSE IF q % 2 = 0 THEN q ELSE q + 1
\* k is w * scale truncated toward zero (w * scale is positive here)
IsTrunc(k, w, s) == k * Unit <= w * s.n /\ w * s.n < (k + 1) * Unit
\* The image handed to cv2.imwrite is w x h, and so is the file if written
Saved(w, h) == srW = w /\ srH = h /\ (outWritten => outW = w /\ outH = h)
\* The same, for the target resolution int(W x scale) x int(H x scale)
SavedAtTarget ==
  /\ IsTrunc(srW, origW, scale) /\ IsTrunc(srH, origH, scale)
  /\ (outWritten => outW = srW /\ outH = srH)

\* C1 as stated: a run that exits 0 on a valid scale writes an output image of
\* width round(W x scale) and height round(H x scale).  Stated for the runs
\* that wrote their file after the Lanczos fallback, which the claim covers.
C1_RoundedDimensions ==
  (Exit0 /\ InRange(scale) /\ outWritten /\ upscaler = "lanczos") =>
    (outW = PyRound(origW, scale) /\ outH = PyRound(origH, scale))

\* C1 amended: in every run that exits 0 (its scale then satisfies
\* 1.0 < scale <= 4.0) the image handed to cv2.imwrite, and so every output file
\* written, is int(W x scale) wide and int(H x scale) high, the products being
\* truncated and not rounded; the one exception is scale = 4.0 on the model path
\* without tiling, where no resize happens and the output has the dimensions of
\* the image the model returned (4W x 4H for a model that upscales by 4).
C1_TruncatedDimensions ==
  Exit0 =>
    /\ InRange(scale)
    /\ IF FNe(scale, 4) \/ upscaler # "model"
       THEN SavedAtTarget
       ELSE Saved(libFactor * origW, libFactor * origH)

\* C1 witness: a run that exited 0 and wrote a file for a scale at which
\* W x scale is not a whole number and rounds up.
C1_Witness ==
  /\ Exit0 /\ outWritten
  /\ IsTrunc(outW, origW, scale)
  /\ PyRound(origW, scale) # outW

\* C2 as stated: a run with scale <= 1.0 or scale > 4.0 exits 1 before the input
\* is opened and before any stage runs, creating neither the output file nor the
\* output directory; 4.0 is accepted, 1.0 rejected; so a stage only ever
\* executes with 1.0 < scale <= 4.0.
C2_ScaleGate ==
  /\ (pc # "start" /\ pc # "scale" /\ (FLe(scale, 1) \/ FGt(scale, 4))) =>
       /\ Done /\ exitStatus = 1 /\ ~opened /\ stageLog = <<>>
       /\ ~outWritten /\ ~dirCreated
  /\ (Done /\ ~opened /\ scale = Num(4 * Unit)) => device = "cuda"
  /\ stageLog # <<>> => InRange(scale)

\* C3: when the model path raises (construction, load_weights or a predict
\* call) in mosaic_superrecon, quality_enhance or quality_enhance_text, the
\* upscale result is the Lanczos resize to (4W, 4H), the run goes on to the
\* resize step, and it ends exactly as a run without the exception does: exit 0
\* whenever cv2.imwrite was reached and did not raise, with the file written
\* whenever the file system accepts it.
C3_FallbackOnException ==
  (modelRaised /\ script # "standalone") =>
    /\ modelMade /\ upscaler = "lanczos" /\ libFactor = 0
    /\ pc \in {"verify", "resize", "color", "denoise2", "boost", "edges",
               "postprocess", "save", "done"}
    /\ (pc \in {"verify", "resize"} =>
          srW = MODEL_SCALE * origW /\ srH = MODEL_SCALE * origH)
    /\ (Done /\ InRange(scale) =>
          /\ writeResult # "none"
          /\ (writeResult \in {"ok", "false"} <=> exitStatus = 0)
          /\ (writeResult = "ok" <=> outWritten))

\* C3 witness: a run whose model raised and that exited 0 with its file written
C3_Witness ==
  modelRaised /\ script = "quality" /\ Exit0 /\ outWritten /\ outW = 4 * origW

\* C4: without the library or without the weight file the model is never
\* instantiated nor invoked, the upscale is the Lanczos resize to exactly
\* (4W, 4H), and the run hands cv2.imwrite an image of the target resolution
\* int(W x scale) x int(H x scale), exiting 0 unless the file system raises;
\* a model-path run whose model returned a 4x image ends with the same
\* dimensions.
C4_FallbackWithoutModel ==
  /\ (upscaler # "none" /\ ~(hasLib /\ weightsExist)) =>
       /\ ~modelMade /\ predictCalls = 0 /\ upscaler = "lanczos"
       /\ (pc \in {"verify", "resize"} =>
             srW = MODEL_SCALE * origW /\ srH = MODEL_SCALE * origH)
       /\ (pc \in {"save", "done"} /\ writeResult \in {"none", "ok", "false"}
             /\ InRange(scale) =>
             /\ SavedAtTarget
             /\ (Done => exitStatus = 0))
  /\ (Exit0 /\ (upscaler = "tiles" \/ libFactor = MODEL_SCALE)) =>
       SavedAtTarget

\* C4 witness: the library is importable, the weights are missing, the run wrote
\* its output at the target resolution of a fractional scale.
C4_Witness ==
  /\ hasLib /\ ~weightsExist /\ Exit0 /\ outWritten /\ upscaler = "lanczos"
  /\ FNe(scale, 4) /\ IsTrunc(outW, origW, scale) /\ outW < MODEL_SCALE * origW

\* C5 as stated: exit status 0 only if the output file was written; a failed
\* read of the input or write of the output (cv2.imwrite returning False
\* included) ends the run with exit status 1.
C5_ExitZeroMeansWritten ==
  Done => /\ (exitStatus = 0 => outWritten)
          /\ (writeResult \in {"false", "raise", "makedirs_raise"} => exitStatus = 1)
          /\ (opened /\ origW = 0 => exitStatus = 1)

\* The stages main() of each script runs on a run that reaches cv2.imwrite, in
\* the order of the source text, as a function of the options alone.
ExpectedStages ==
  IF script = "mosaic"
  THEN OptSeq(strength > 0, "reduce_mosaic_artifacts")
       \o OptSeq(denoise, "denoise_image")
       \o <<"upscale">>
       \o OptSeq(FNe(scale, 4), "resize")
       \o <<"enhance_color">>
       \o OptSeq(denoise, "denoise_image")
       \o <<"boost_detail">>
       \o (IF edges THEN <<"enhance_edges">> ELSE <<"light_sharpen">>)
  ELSE OptSeq(script # "text", "preprocess_image")
       \o <<"upscale">>
       \o OptSeq(FNe(scale, 4), "resize")
       \o PostStages(script)

\* A file of this size fails the 10% size check against size_mb
Mismatch(size) == 10 * Abs(size - ExpBytes) > ExpBytes

\* C6: download_model with force = false on an existing file whose size is off
\* by more than the tolerance does not accept it: it fetches exactly once to the
\* same path, a successful fetch replaces the file, and True is returned only
\* after a successful fetch.
C6_TruncatedFileRefetched ==
  (dlName \in MODELS /\ ~dlForce /\ dlFile0 # Absent /\ Mismatch(dlFile0)) =>
    /\ dlPc \in {"lookup", "existing", "fetch", "verify", "returned"}
    /\ (dlPc \in {"verify", "returned"} =>
          /\ dlFetches = 1
          /\ (dlFetchOk = "True" => dlFile = dlFetched))
    /\ (dlRet = "True" => dlFetchOk = "True")

\* C6 witness: a truncated file was found and replaced by a fetched full file
C6_Witness ==
  /\ dlPc = "returned" /\ ~dlForce /\ dlFile0 = ExpBytes \div 2
  /\ dlFetches = 1 /\ dlFile = ExpBytes /\ dlRet = "True"

\* C7 as stated: a fetched file that fails size verification is treated as
\* corrupted and fetched again instead of being left in place.
C7_RetryOnCorruption ==
  (dlPc = "returned" /\ dlPostValid = "invalid") => dlFetches >= 2

\* C7 amended: when download_model fetches a file and the fetched file fails
\* size verification, it prints a warning and returns True with that file in
\* place, without fetching again.
C7_BadFetchKept ==
  (dlPc = "returned" /\ dlFetchOk = "True" /\ Mismatch(dlFetched)) =>
    /\ dlPostValid = "invalid"
    /\ dlFetches = 1 /\ dlRet = "True" /\ dlFile = dlFetched

\* C7 witness: an invocation returned after fetching a file of half the size
C7_Witness ==
  /\ dlPc = "returned" /\ dlFetchOk = "True" /\ dlFetched = ExpBytes \div 2
  /\ dlRet = "True" /\ dlFile = ExpBytes \div 2

\* C8: one invocation of download_model calls download_file at most once and
\* never goes back: every step either starts a new invocation or moves the
\* invocation strictly forward, so it returns after at most four steps.
DlRank(p) == CASE p = "idle" -> 0 [] p = "lookup" -> 1 [] p = "existing" -> 2
               [] p = "fetch" -> 3 [] p = "verify" -> 4 [] OTHER -> 5
C8_AtMostOneFetch ==
  /\ [](dlFetches <= 1)
  /\ [][dlPc' = "lookup" \/ DlRank(dlPc') > DlRank(dlPc)]_dlPc

\* C8 witness: an invocation that fetched once, failed verification, returned
C8_Witness ==
  dlPc = "returned" /\ dlFetches = 1 /\ dlPostValid = "invalid" /\ dlCalls = 2

C10_VerdictOnlyLogged ==
  /\ [][pc = "verify" =>
          /\ pc' = "resize"
          /\ UNCHANGED <<cfgVars, modelVars, outVars, exitStatus, device,
                         opened, origW, origH, srW, srH, refW, refH, stageLog>>]_vars
  /\ [](Done /\ verdict # "none" /\ ~scale.nan =>
          /\ stageLog = ExpectedStages
          /\ (exitStatus = 0 <=> writeResult \in {"ok", "false"})
          /\ (outWritten <=> writeResult = "ok")
          /\ (outWritten => outW = srW /\ outH = srH))

\* C10 witness: the verification failed and the run still wrote its output and
\* exited 0
C10_Witness ==
  verdict = "fail" /\ Exit0 /\ outWritten /\ stageLog = ExpectedStages

ExpCount(w, h) == Ceil(w, tile_size - overlap) * Ceil(h, tile_size - overlap)
ExpBox(k, w, h) ==
  LET d == tile_size - overlap
      cols == Ceil(w, d)
      c == (k - 1) % cols
      r == (k - 1) \div cols
  IN <<d * c, d * r, Min(d * c + tile_size, w), Min(d * r + tile_size, h)>>
\* The upscaled k-th tile, pasted at 4 times its crop origin, covers pixel p
Covers(k, p) ==
  LET b == ExpBox(k, tlW, tlH)
  IN /\ 4 * b[1] <= p[1] /\ p[1] < 4 * b[1] + tlFactor * (b[3] - b[1])
     /\ 4 * b[2] <= p[2] /\ p[2] < 4 * b[2] + tlFactor * (b[4] - b[2])
LastCovering(p) ==
  LET S == {k \in 1..ExpCount(tlW, tlH) : Covers(k, p)}
  IN IF S = {} THEN 0 ELSE CHOOSE k \in S : \A j \in S : j <= k

\* C12 as stated: on the model path, on cpu the image is always upscaled
\* through tiles and never by one predict call on the whole image; on cuda the
\* whole image goes to exactly one predict call.
C12_CpuAlwaysTiles ==
  /\ (tlDevice = "cpu" /\ tlPc \notin {"idle", "branch"}) => ~tlWhole
  /\ (tlDevice = "cuda" /\ tlPc = "returned") =>
       tlWhole /\ tlCalls = << <<0, 0, tlW, tlH>> >>

\* C12 amended: on the model path the image is split into tiles exactly when
\* the device is cpu and the image has more than 512 x 512 pixels (W x H >
\* 262144): then predict is never called on the whole image, every crop lies
\* in the image and is at most 512 x 512, and a crop overlaps the next one of
\* its row and the one below it; on cuda, and on cpu for an image of at most
\* 512 x 512 pixels (whatever its sides), the whole image is passed to exactly
\* one predict call and nothing is pasted.
C12_TilesOnlyForLargeCpu ==
  tlPc \notin {"idle", "branch"} =>
    IF tlDevice = "cpu" /\ tlW * tlH > tile_size * tile_size
    THEN /\ ~tlWhole
         /\ \A k \in 1..Len(tlCalls) :
              LET b == tlCalls[k]
              IN /\ 0 <= b[1] /\ b[1] < b[3] /\ b[3] <= tlW
                 /\ 0 <= b[2] /\ b[2] < b[4] /\ b[4] <= tlH
                 /\ b[3] - b[1] <= tile_size /\ b[4] - b[2] <= tile_size
         /\ \A j \in 1..Len(tlCalls), k \in 1..Len(tlCalls) :
              LET a == tlCalls[j]
                  b == tlCalls[k]
              IN /\ (a[2] = b[2] /\ b[1] = a[1] + (tile_size - overlap)) => b[1] < a[3]
                 /\ (a[1] = b[1] /\ b[2] = a[2] + (tile_size - overlap)) => b[2] < a[4]
    ELSE /\ tlWhole /\ tlCalls = << <<0, 0, tlW, tlH>> >>
         /\ tlTiles = <<>> /\ tlPastes = <<>>

\* C12 witness: on cpu an image 600 wide and 1 high went to one predict call
C12_Witness ==
  /\ tlPc = "returned" /\ tlDevice = "cpu" /\ tlW = BigDim /\ tlH = 1
  /\ tlWhole /\ Len(tlCalls) = 1 /\ tlOut = <<tlFactor * BigDim, tlFactor>>

\* C13: upscale_with_tiles on cpu calls predict on one crop at a time in
\* row-major order with step 480, finishes every prediction before the first
\* paste, pastes each upscaled tile at 4 times its crop origin in the same
\* order, and so leaves at every pixel the tile pasted last among those that
\* cover it.
C13_TileOrder ==
  /\ []((tlPc \notin {"idle", "branch"} /\ ~tlWhole) =>
          LET n == ExpCount(tlW, tlH)
          IN /\ Len(tlCalls) <= n
             /\ \A k \in 1..Len(tlCalls) : tlCalls[k] = ExpBox(k, tlW, tlH)
             /\ (tlPastes # <<>> => Len(tlCalls) = n /\ Len(tlTiles) = n)
             /\ Len(tlPastes) <= n
             /\ \A k \in 1..Len(tlPastes) :
                  tlPastes[k] = <<4 * ExpBox(k, tlW, tlH)[1], 4 * ExpBox(k, tlW, tlH)[2]>>
             /\ (tlPc = "returned" =>
                   /\ Len(tlPastes) = n
                   /\ \A p \in Probes : tlCanvas[p] = LastCovering(p)))
  /\ [][tlPastes # <<>> => tlCalls' = tlCalls]_vars

\* C13 witness: four tiles of a 600 x 600 image were pasted; the pixel at 4 x
\* (480, 480), covered by all four, shows the fourth, and the one at 4 x
\* (480, 0), covered by the first two, shows the second
C13_Witness ==
  /\ tlPc = "returned" /\ tlW = BigDim /\ tlH = BigDim /\ tlFactor = MODEL_SCALE
  /\ Len(tlPastes) = 4
  /\ tlCanvas[<<4 * 480, 4 * 480>>] = 4
  /\ tlCanvas[<<4 * 480, 0>>] = 2

\* C14: auto_setup begins its steps in the order diagnosis, install, download,
\* verification, each at most once and only after the previous one has ended;
\* the download and the verification begin only after a successful install,
\* and a failed install ends the run with exit status 1.
SetupOrder ==
  << <<"diagnosis", "begin">>, <<"diagnosis", "end">>,
     <<"install", "begin">>, <<"install", "end">>,
     <<"download", "begin">>, <<"download", "end">>,
     <<"verify", "begin">>, <<"verify", "end">> >>
Began(s) == \E k \in 1..Len(asLog) : asLog[k] = <<s, "begin">>
C14_SetupStepOrder ==
  /\ IsPrefix(asLog, SetupOrder)
  /\ (Began("download") \/ Began("verify")) => asRes["install"] = "ok"
  /\ asRes["install"] = "fail" => asPc = "done" /\ asExit = 1

\* C14 witness: the diagnosis reported issues, the run went on to the install,
\* the install failed and the run ended with status 1 without a download
C14_Witness ==
  /\ asPc = "done" /\ asExit = 1
  /\ asRes["diagnosis"] = "fail" /\ asRes["install"] = "fail"
  /\ Len(asLog) = 4 /\ ~Began("download")

\* C15 as stated: when the realesrgan import fails, with ImportError or with
\* any other exception, every script goes on with HAS_REALESRGAN false and
\* takes the classical fallback instead of aborting; when the required imports
\* fail the script prints a message and exits 1 before it parses arguments or
\* touches a file.
C15_ImportFailures ==
  /\ (pc # "start" /\ reqImport = "ok" /\ optImport \in {"ImportError", "other"}) =>
       /\ importMsg = "warning" /\ ~hasLib
       /\ (upscaler # "none" => upscaler = "lanczos" /\ ~modelMade)
  /\ (pc # "start" /\ reqImport \in {"ImportError", "other"}) =>
       /\ Done /\ exitStatus = 1 /\ importMsg \in {"fatal", "traceback"}
       /\ device = "none" /\ ~opened /\ stageLog = <<>>
       /\ ~outWritten /\ ~dirCreated


\* C16: verify_file returns False for a file that does not exist; for a file
\* that exists it returns True exactly when no expected size is given or the
\* size differs from the expected one by at most a tenth of the expected size
\* (exactly a tenth included), whatever the file holds.
WithinTenth(size, mb) ==
  LET diff == IF size >= mb * MiB THEN size - mb * MiB ELSE mb * MiB - size
  IN 10 * diff <= mb * MiB
C16_VerifyFileTolerance ==
  vfPc = "returned" =>
    vfResult = (vfSize # Absent /\ (vfExpected = 0 \/ WithinTenth(vfSize, vfExpected)))
\* a file of other content whose size is exactly 10% below 5 MB is accepted
C16_Witness ==
  /\ vfPc = "returned" /\ vfExpected = 5 /\ vfContent = "other"
  /\ vfSize # Absent /\ 10 * (5 * MiB - vfSize) = 5 * MiB
  /\ vfResult = TRUE

\* C19: load_esrgan_model looks for <weights dir>/<model_name>.pth; when the
\* file is missing it raises FileNotFoundError and no model object has been
\* built; a model object is only ever built for an existing file and on the
\* chosen device, "auto" standing for cuda when CUDA is available and cpu
\* otherwise; the device returned is the chosen one and never "auto".
ChosenDevice ==
  IF mlDeviceArg # "auto" THEN mlDeviceArg ELSE IF mlCuda THEN "cuda" ELSE "cpu"
C19_LoadEsrganModel ==
  LET wanted == <<WeightsDir, mlName, ".pth">>
  IN /\ (mlPc \in {"returned", "raised"} /\ wanted \notin mlFiles)
          => (mlPc = "raised" /\ mlRaised = "FileNotFoundError" /\ mlModel = NoModel)
     /\ mlRaised = "FileNotFoundError" => wanted \notin mlFiles
     /\ mlModel # NoModel => (wanted \in mlFiles /\ mlModel.device = ChosenDevice)
     /\ mlPc = "returned"
          => /\ mlModel = [device |-> ChosenDevice, scale |-> mlScale, weights |-> wanted]
             /\ mlDevice = ChosenDevice /\ mlDevice # "auto"
C19_Witness ==
  /\ mlPc = "returned" /\ mlDeviceArg = "auto" /\ ~mlCuda /\ mlDevice = "cpu"
  /\ mlName = "RealESRGAN_x2plus" /\ mlModel.device = "cpu"

\* C17: a run that ends with status 0 and has written its output produced an
\* image strictly wider and strictly higher than the input.
Succeeded == pc = "done" /\ exitStatus = 0 /\ outWritten
C17_StrictlyLarger == Succeeded => (outW > origW /\ outH > origH)
\* C17 as the code has it: the output is never smaller than the input; for a
\* scale other than 4.0 a side grows exactly when side * (scale - 1) >= 1
\* (the product is truncated); at 4.0 a side is 4 times the input's after the
\* Lanczos fallback or the tiled path, and what the model returned otherwise.
Grows(side, out) == out > side <=> side * (scale.n - Unit) >= Unit
C17_LargerUnlessTruncated ==
  Succeeded =>
    /\ InRange(scale)
    /\ outW >= origW /\ outH >= origH
    /\ scale.n # 4 * Unit => (Grows(origW, outW) /\ Grows(origH, outH))
    /\ (scale.n = 4 * Unit /\ upscaler # "model")
         => (outW = 4 * origW /\ outH = 4 * origH)
    /\ (scale.n = 4 * Unit /\ upscaler = "model")
         => (outW = libFactor * origW /\ outH = libFactor * origH)
\* a 1 x 2 image at scale 1.5: the height grows to 3, the width stays 1
C17_Witness ==
  /\ Succeeded /\ scale = Num(Unit + Unit \div 2)
  /\ origW = 1 /\ origH = 2 /\ outW = 1 /\ outH = 3

\* C18: enhance_color returns an image of the width and height of its input,
\* without a reference and with a reference of any size; from the end of the
\* resize step on no stage changes the dimensions of the image, and the file
\* written has the dimensions the image had after the resize step.
ImageDims == {<<w, h>> : w \in Widths, h \in Heights}
PostResizePcs == {"color", "denoise2", "boost", "edges", "postprocess", "save"}
EnhanceColorKeepsSize ==
  \A img \in ImageDims, ref \in ImageDims \cup {NoRef} : enhance_color(img, ref) = img
KeepsSizeAfterResize == pc \in PostResizePcs => srW' = srW /\ srH' = srH
C18_DimensionsPreserved ==
  /\ [](EnhanceColorKeepsSize /\ (outWritten => (outW = srW /\ outH = srH)))
  /\ [][KeepsSizeAfterResize]_vars
\* a mosaic run with both options that resized (3 x 1 from 2 x 1 at 1.5, the
\* reference resized with it) and wrote what the resize step gave
C18_Witness ==
  /\ Succeeded /\ script = "mosaic" /\ denoise /\ edges
  /\ scale = Num(Unit + Unit \div 2) /\ origW = 2 /\ origH = 1
  /\ outW = 3 /\ outH = 1 /\ refW = 3 /\ refH = 1
  /\ Len(stageLog) > 0 /\ stageLog[Len(stageLog)] = "enhance_edges"

\* C20: when download_model has returned True, and so whenever the download
\* command exits 0, the file weights_dir/<model_name>.pth exists and its size
\* is within the tolerance of the model's expected size.
C20_TrueOnlyIfVerified ==
  (dlPc = "returned" /\ (dlRet = "True" \/ download_cli_exit(dlRet) = 0)) =>
    (dlName \in MODELS /\ dlFile # Absent /\ ~Mismatch(dlFile))

\* C21: whenever auto_setup has exited with status 0, the weight file
\* weights/RealESRGAN_x4plus.pth exists with a size the downloader accepts, and
\* the download step of that run has not failed.
C21_ExitZeroMeansVerifiedWeights ==
  (asPc = "done" /\ asExit = 0) =>
    (asWeights = "good" /\ asRes["download"] # "fail")

\* C22: auto_setup exits with status 0 exactly when install_requirements and
\* verify_setup both returned True; a False from run_diagnosis or from
\* download_models leaves the exit status open and lets the next step begin;
\* the status passed to sys.exit inside the try block is the exit status.
WarnedAndWentOn ==
  /\ (asRes["diagnosis"] # "fail" /\ asRes'["diagnosis"] = "fail")
       => (asPc' = "install" /\ asExit' = asExit)
  /\ (asRes["download"] # "fail" /\ asRes'["download"] = "fail")
       => (asPc' = "verify" /\ asExit' = asExit)
ExitIffInstallAndVerify ==
  /\ asPc = "done" =>
       (asExit = 0 <=> (asRes["install"] = "ok" /\ asRes["verify"] = "ok"))
  /\ (asPc = "done" /\ asRes["diagnosis"] = "fail") => Began("install")
  /\ (asPc = "done" /\ asRes["download"] = "fail") => Began("verify")
  /\ (asPc = "done" /\ asRes["verify"] = "fail") => asExit = 1
C22_ExitStatus == [](ExitIffInstallAndVerify) /\ [][WarnedAndWentOn]_vars
\* a run whose diagnosis and download both failed and which exited 0
C22_Witness ==
  /\ asPc = "done" /\ asExit = 0
  /\ asRes["diagnosis"] = "fail" /\ asRes["download"] = "fail"
  /\ asRes["install"] = "ok" /\ asRes["verify"] = "ok"

\* C23: when predict raises on a tile (the first, a middle one or the last),
\* the upscale step returns the Lanczos resize of the whole image to 4W x 4H;
\* no canvas was created and nothing was pasted; an output built from tiles
\* has every tile of the image predicted and pasted.
C23_NoPartialCanvas ==
  /\ (tlPc = "fallback" /\ ~tlWhole) =>
       /\ tlSource = "lanczos" /\ tlOut = <<4 * tlW, 4 * tlH>>
       /\ tlPastes = <<>> /\ \A p \in Probes : tlCanvas[p] = 0
       /\ Len(tlCalls) = Len(tlTiles) + 1
  /\ tlSource = "tiles" =>
       /\ tlPc = "returned"
       /\ Len(tlTiles) = ExpCount(tlW, tlH) /\ Len(tlPastes) = Len(tlTiles)
       /\ Len(tlCalls) = Len(tlTiles)
\* predict raised on the third of the four tiles of a 600 x 600 image
C23_Witness ==
  /\ tlPc = "fallback" /\ tlW = BigDim /\ tlH = BigDim /\ tlDevice = "cpu"
  /\ Len(tlTiles) = 2 /\ Len(tlCalls) = 3
  /\ tlSource = "lanczos" /\ tlOut = <<4 * BigDim, 4 * BigDim>>

\* C24: for every image the crops of upscale_with_tiles (tile_size 512,
\* overlap 32) are non-empty, inside the image and at most 512 x 512; when the
\* loops have ended there are ceil(W/480) * ceil(H/480) of them and every
\* pixel of the image is in one; if the model returns each tile at 4 times
\* its crop, no tile is pasted beyond the 4W x 4H canvas and every pixel of
\* the returned canvas has been painted.
\* A set of boxes <<left, top, right, bottom>> covers the w x h rectangle iff
\* it covers the pixels whose column is 0 or the right edge of a box and whose
\* row is 0 or the bottom edge of a box: from an uncovered pixel, walking left
\* and then up over uncovered pixels ends at such a pixel.
CoversRect(boxes, w, h) ==
  LET xs == {0} \cup {b[3] : b \in boxes}
      ys == {0} \cup {b[4] : b \in boxes}
  IN \A px \in {x \in xs : x < w}, py \in {y \in ys : y < h} :
       \E b \in boxes : b[1] <= px /\ px < b[3] /\ b[2] <= py /\ py < b[4]
CropBoxes == {tlCalls[k] : k \in 1..Len(tlCalls)}
TileBoxes ==
  {<<tlTiles[k].x, tlTiles[k].y, tlTiles[k].x + tlTiles[k].w,
     tlTiles[k].y + tlTiles[k].h>> : k \in 1..Len(tlTiles)}
C24_CropsCoverImage ==
  (tlPc \notin {"idle", "enter"} /\ ~tlWhole) =>
    /\ \A b \in CropBoxes :
         /\ 0 <= b[1] /\ b[1] < b[3] /\ b[3] <= tlW /\ b[3] - b[1] <= 512
         /\ 0 <= b[2] /\ b[2] < b[4] /\ b[4] <= tlH /\ b[4] - b[2] <= 512
    /\ tlPc \in {"paste", "returned"} =>
         /\ Len(tlCalls) = ((tlW + 479) \div 480) * ((tlH + 479) \div 480)
         /\ Cardinality(CropBoxes) = Len(tlCalls)
         /\ CoversRect(CropBoxes, tlW, tlH)
    /\ (tlPc \in {"paste", "returned"} /\ tlFactor = 4) =>
         /\ \A b \in TileBoxes : b[3] <= 4 * tlW /\ b[4] <= 4 * tlH
         /\ CoversRect(TileBoxes, 4 * tlW, 4 * tlH)
    /\ (tlPc = "returned" /\ tlFactor = 4) =>
         \A p \in Probes : (p[1] < 4 * tlW /\ p[2] < 4 * tlH) => tlCanvas[p] # 0
\* a 961 x 1 image, smaller than 512 * 512 pixels: three crops, three tiles
C24_Witness ==
  /\ tlPc = "returned" /\ tlDevice = "cpu" /\ tlFactor = 4
  /\ tlW = 961 /\ tlH = 1 /\ Len(tlPastes) = 3
  /\ tlCalls[3] = <<960, 0, 961, 1>> /\ tlOut = <<3844, 4>>

\* C25: diagnose.py prints READY and exits 0 exactly when every required
\* library imports, the model file exists and the three scripts exist; it
\* exits 1 otherwise, whatever the Python version, the GPU, the paths and the
\* --json flag are.
C25_ReadyIffAllPresent ==
  dgPc = "done" =>
    LET allPresent == /\ \A l \in RequiredLibs : dgImports[l] = "ok"
                      /\ dgModelExists
                      /\ RequiredScripts \subseteq dgScripts
    IN /\ dgExit = (IF allPresent THEN 0 ELSE 1)
       /\ (dgReady = "READY") = allPresent
\* READY and exit 0 on Python 3.7 without CUDA, with --json given
C25_Witness ==
  /\ dgPc = "done" /\ dgExit = 0 /\ dgReady = "READY"
  /\ dgVersion = <<3, 7>> /\ dgDiagnosis.python.status = "error"
  /\ ~dgCuda /\ dgJson /\ dgJsonPrinted

\* C26: check_python_version gives status "ok" and message "OK" exactly for
\* the versions from 3.8 on, later major versions included, and status
\* "error" with message "Python 3.8+ required" for every other version.
C26_PythonVersionCheck ==
  dgDiagnosis # NoDiagnosis =>
    LET atLeast38 == dgVersion[1] > 3 \/ (dgVersion[1] = 3 /\ dgVersion[2] >= 8)
    IN dgDiagnosis.python =
         IF atLeast38 THEN [status |-> "ok", message |-> "OK"]
         ELSE [status |-> "error", message |-> "Python 3.8+ required"]

\* C27: a call of download_model without force on an existing file that
\* passes verification returns True, has fetched nothing and leaves the file
\* as it was (so does a second call after a call that left a verified file);
\* a call with force fetches, whatever file exists; a call with a name that is
\* not in MODELS returns False, has fetched nothing and leaves the file alone.
C27_ExistingForceUnknown ==
  /\ (dlPc \notin {"idle", "lookup"} /\ dlName \notin MODELS) =>
       (dlPc = "returned" /\ dlRet = "False" /\ dlFetches = 0 /\ dlFile = dlFile0)
  /\ (dlPc = "returned" /\ dlName \in MODELS) =>
       /\ (~dlForce /\ dlFile0 # Absent /\ ~Mismatch(dlFile0)) =>
            (dlRet = "True" /\ dlFetches = 0 /\ dlFile = dlFile0)
       /\ dlForce => dlFetches = 1
\* the second call found the verified file and returned True without a fetch
C27_Witness ==
  /\ dlPc = "returned" /\ dlCalls = 2 /\ dlName \in MODELS /\ ~dlForce
  /\ dlFile0 = ExpBytes /\ dlFile = ExpBytes /\ dlFetches = 0 /\ dlRet = "True"

\* C28: in mosaic_superrecon the first stage never ends the run, whatever
\* --mosaic-strength is (negative, zero, within [0,1] or above 1): once it is
\* passed, reduce_mosaic_artifacts has been called exactly if the strength is
\* greater than 0, and then with the strength given on the command line.
PassedReduce == script = "mosaic" /\ origW > 0 /\ pc # "reduce"
ReduceCalledIffPositive ==
  reduceArg = IF PassedReduce /\ strength > 0 THEN <<strength>> ELSE <<>>
ReduceNeverExits ==
  (script = "mosaic" /\ pc = "reduce") => (pc' = "denoise1" /\ exitStatus' = exitStatus)
StandaloneUpscaleSame ==
  script = "standalone" =>
    /\ upscaler \in {"none", "lanczos"} /\ ~modelMade /\ predictCalls = 0
    /\ pc = "resize" => (srW = 4 * origW /\ srH = 4 * origH /\ upscaler = "lanczos")
    /\ Succeeded => (IsTrunc(outW, origW, scale) /\ IsTrunc(outH, origH, scale))
StandaloneUpscaleGoesOn ==
  (script = "standalone" /\ pc = "upscale") => (pc' = "resize" /\ exitStatus' = exitStatus)
C29_WeightsDoNotMatter == [](StandaloneUpscaleSame) /\ [][StandaloneUpscaleGoesOn]_vars
\* the weight file was there and loaded, and the output is the Lanczos one
C29_Witness ==
  /\ Succeeded /\ script = "standalone" /\ weightsExist /\ ~modelRaised
  /\ upscaler = "lanczos" /\ scale = Num(4 * Unit) /\ origW = 2 /\ outW = 8

\* C30: from whatever working directory the commands are started, the file
\* download_models with default options has stored is the file every
\* enhancement script, the model loader and diagnose.py test for existence,
\* and so that file exists for them.
C30_OnePathForWeights ==
  ptStored # <<>> =>
    \A c \in Consumers :
      ptLooked[c] # <<>> => (ptLooked[c] = ptStored /\ ptLooked[c] \in ptFiles)

====
